---------------------------- MODULE Spec2Model ----------------------------
(***************************************************************************)
(* Breedbase-Client: the paginated fetch engine (client/helpers.py), the   *)
(* legacy BrAPIClient._fetch_all_pages (client.py), the generic tools      *)
(* brapi_get / brapi_search (mcp_server/tools/generic/tools.py) and the    *)
(* session result cache (mcp_server/session/result_cache.py).              *)
(*                                                                         *)
(* Python values are modelled as follows.                                  *)
(*   Optional[x]  : <<>> is None, <<x>> is the value x.                    *)
(*   str          : a tuple of one-character strings.                      *)
(*   dict params  : a function from key names to values.                   *)
(*   JSON value   : a record [kind, hasData, dataKind, data, handle,       *)
(*                  ident]; see JDict, JList, JNull, JNum below.           *)
(***************************************************************************)
EXTENDS Integers, Sequences, FiniteSets, TLC

(***************************************************************************)
(* Bounds of the model.                                                    *)
(***************************************************************************)
MaxPagesArg == 2       \* largest max_pages a caller passes
MaxTotalPages == 3     \* largest totalPages / currentPage a server reports
MaxLoopPages == 3      \* cap on the page counter when max_pages is None
MaxPageRows == 2       \* most records on one page
MaxTotalCount == 2     \* the totalCount a server reports, when it is not 0

None == <<>>
Some(x) == <<x>>
IsNone(o) == o = <<>>
Val(o) == o[1]

Min(a, b) == IF a <= b THEN a ELSE b

(***************************************************************************)
(* JSON values as the server sends them and as Python holds them.          *)
(*   kind      "dict" | "list" | "null" | "num"                            *)
(*   hasData   (dict) the key 'data' is present                            *)
(*   dataKind  (dict with 'data') kind of the value under 'data'           *)
(*   data      (list) the items; (dict with a 'data' list) its items       *)
(*   handle    (dict) the value under 'searchResultsDbId', <<>> if absent  *)
(*   ident     (dict) 0 if the dict has no other key, else what the other  *)
(*             keys hold                                                   *)
(***************************************************************************)
JNull == [kind |-> "null", hasData |-> FALSE, dataKind |-> "none", data |-> <<>>,
          handle |-> <<>>, ident |-> 0]
JNum == [kind |-> "num", hasData |-> FALSE, dataKind |-> "none", data |-> <<>>,
         handle |-> <<>>, ident |-> 0]
JList(items) == [kind |-> "list", hasData |-> FALSE, dataKind |-> "none",
                 data |-> items, handle |-> <<>>, ident |-> 0]
JDict(i) == [kind |-> "dict", hasData |-> FALSE, dataKind |-> "none", data |-> <<>>,
             handle |-> <<>>, ident |-> i]
JDataDict(items) == [kind |-> "dict", hasData |-> TRUE, dataKind |-> "list",
                     data |-> items, handle |-> <<>>, ident |-> 0]
JDataOther(k) == [kind |-> "dict", hasData |-> TRUE, dataKind |-> k, data |-> <<>>,
                  handle |-> <<>>, ident |-> 0]
JHandleDict(h) == [kind |-> "dict", hasData |-> FALSE, dataKind |-> "none",
                   data |-> <<>>, handle |-> h, ident |-> 0]

\* The i-th record of the page requested as page p: a dict with its own keys.
Row(p, i) == JDict(10 * (p + 1) + i)
PageRows(p, n) == [i \in 1..n |-> Row(p, i)]

\* Python truthiness (bool(v)).
Truthy(v) ==
  CASE v.kind = "null" -> FALSE
    [] v.kind = "num" -> TRUE
    [] v.kind = "list" -> Len(v.data) > 0
    [] v.kind = "dict" -> v.hasData \/ ~IsNone(v.handle) \/ v.ident # 0

\* result_obj.get('data', []) for a dict that has the key 'data'.
DataOf(result_obj) ==
  CASE result_obj.dataKind = "list" -> JList(result_obj.data)
    [] result_obj.dataKind = "null" -> JNull
    [] OTHER -> JNum

(***************************************************************************)
(* helpers._extract_data                                                   *)
(***************************************************************************)
_extract_data(result_obj) ==
  IF result_obj.kind = "dict" /\ result_obj.hasData THEN DataOf(result_obj)
  ELSE IF result_obj.kind = "list" THEN result_obj
  ELSE IF result_obj.kind = "dict" THEN JList(<<result_obj>>)
  ELSE JList(<<>>)

(***************************************************************************)
(* Python dicts (query parameters) and strings.                            *)
(***************************************************************************)
EmptyDict == [k \in {} |-> 0]
DictSet(d, k, v) == [x \in (DOMAIN d) \cup {k} |-> IF x = k THEN v ELSE d[x]]
DictTruthy(o) == ~IsNone(o) /\ DOMAIN Val(o) # {}

\* Query parameters a caller supplies: None, {} or one filter.
CallerParams == {None, Some(EmptyDict), Some([k \in {"f"} |-> 1])}
PageSizes == {100}
Endpoints == {<<"s">>}

(***************************************************************************)
(* What the server may answer to one GET.  A body is the decoded JSON:     *)
(* 'result' present or not, and metadata.pagination with each of           *)
(* totalCount, currentPage, totalPages present or not.                     *)
(***************************************************************************)
OptCount == {None, Some(0), Some(MaxTotalCount)}
OptPage == {None} \cup {Some(n) : n \in 0..MaxTotalPages}
\* currentPage as reported for page p: absent, right, the first or the last page.
OptCurrent(p) == {None, Some(p), Some(0), Some(MaxTotalPages)}
\* A page holds one record or is full.
RowCounts == {1, MaxPageRows}

\* Results that deliver records: pagination is read after them.
RecordResults(p) ==
  {JDataDict(PageRows(p, n)) : n \in RowCounts}
    \cup {JList(PageRows(p, n)) : n \in RowCounts}
    \cup {JDict(10 * (p + 1))}

\* Results after which the loop stops before it reads the pagination.
QuietResults ==
  {JDataDict(<<>>), JList(<<>>), JNull, JNum, JDataOther("null"), JDataOther("num")}

NoResultBody == [hasResult |-> FALSE, result |-> JNull, totalCount |-> None,
                 currentPage |-> None, totalPages |-> None]

Bodies(p) ==
  {NoResultBody}
    \cup {[hasResult |-> TRUE, result |-> r, totalCount |-> None,
           currentPage |-> None, totalPages |-> None] : r \in QuietResults}
    \cup {[hasResult |-> TRUE, result |-> r, totalCount |-> tc,
           currentPage |-> cp, totalPages |-> tp] :
            r \in RecordResults(p), tc \in OptCount, cp \in OptCurrent(p),
            tp \in OptPage}

\* One HTTP exchange: a decoded body, an HTTP/transport failure
\* (requests.exceptions.RequestException) or an expired token (InvalidTokenError).
Failures == {[status |-> "http_error", body |-> NoResultBody],
             [status |-> "token_error", body |-> NoResultBody]}
Exchanges(p) == {[status |-> "ok", body |-> b] : b \in Bodies(p)} \cup Failures

\* Answers to the GET repeated after a re-authentication.
RetryBodies(p) ==
  {NoResultBody}
    \cup {[hasResult |-> TRUE, result |-> JDataDict(PageRows(p, MaxPageRows)),
           totalCount |-> None, currentPage |-> Some(p), totalPages |-> tp] :
            tp \in OptPage}
RetryExchanges(p) == {[status |-> "ok", body |-> b] : b \in RetryBodies(p)} \cup Failures

(***************************************************************************)
(* client.BrapiClient._get: one GET; on InvalidTokenError re-authenticate  *)
(* once and repeat the GET; every other exception reaches the caller.      *)
(***************************************************************************)
ClientGet(first, reauth, second) ==
  IF first.status = "ok"
  THEN [raised |-> FALSE, exc |-> "none", body |-> first.body, sent |-> 1]
  ELSE IF first.status = "token_error"
  THEN IF reauth
       THEN IF second.status = "ok"
            THEN [raised |-> FALSE, exc |-> "none", body |-> second.body, sent |-> 2]
            ELSE [raised |-> TRUE,
                  exc |-> IF second.status = "token_error" THEN "InvalidTokenError"
                          ELSE "HTTPError",
                  body |-> NoResultBody, sent |-> 2]
       ELSE [raised |-> TRUE, exc |-> "InvalidTokenError", body |-> NoResultBody, sent |-> 1]
  ELSE [raised |-> TRUE, exc |-> "HTTPError", body |-> NoResultBody, sent |-> 1]

(***************************************************************************)
(* State of one call of the fetch engine.                                  *)
(***************************************************************************)
VARIABLES
  pc,             \* "idle" | "loop" | "done": position of the running call
  op,             \* "none" | "fetch" | "search" | "legacy": function running
  endpoint,       \* path the loop requests
  max_pages,      \* Optional[int]
  pagesize,
  params,         \* the dict the loop sends (params or {})
  caller_params,  \* the caller's params object, as the caller sees it
  page,
  all_data,
  total_count,
  outcome,        \* "none" | "returned" | "raised"
  exc,            \* exception that reached the caller
  ret,            \* None, or Some([data, meta]) returned to the caller
  reqs,           \* requests issued by the call, in order
  srv,            \* what the server has answered so far (see Regular)
  search_response, \* None, or Some(exchange): the answer to the search POST
  response        \* _fetch_all_pages: None, or Some(body) of the last answer

engineVars == <<pc, op, endpoint, max_pages, pagesize, params, caller_params, page,
                all_data, total_count, outcome, exc, ret, reqs, srv,
                search_response, response>>

Meta(tc, rc, pf, err) ==
  [totalCount |-> tc, returnedCount |-> rc, pagesFetched |-> pf, hasError |-> err]

Request(m, ep, ps, got) ==
  [method |-> m, endpoint |-> ep, params |-> ps, sent |-> got.sent, raised |-> got.raised]

NumGets == Cardinality({i \in 1..Len(reqs) : reqs[i].method = "GET"})

EngineIdle ==
  /\ pc = "idle" /\ op = "none" /\ endpoint = <<>> /\ max_pages = None
  /\ pagesize = 0 /\ params = EmptyDict /\ caller_params = None /\ page = 0
  /\ all_data = <<>> /\ total_count = 0 /\ outcome = "none" /\ exc = "none"
  /\ ret = None /\ reqs = <<>>
  /\ srv = [regular |-> TRUE, totalPages |-> None]
  /\ search_response = None
  /\ response = None

\* The locals before the loop when the loop starts from a dict that holds a
\* filter whatever the caller passed.
EnterFetchWithFilter(ep, p, mp, ps) ==
  LET d2 == DictSet([k \in {"f"} |-> 1], "pageSize", ps)
  IN /\ pc' = "loop" /\ endpoint' = ep /\ max_pages' = mp /\ pagesize' = ps
     /\ params' = d2
     /\ caller_params' = IF DictTruthy(p) THEN Some(d2) ELSE p
     /\ page' = 0 /\ all_data' = <<>> /\ total_count' = 0
     /\ outcome' = "none" /\ exc' = "none" /\ ret' = None
     /\ srv' = [regular |-> TRUE, totalPages |-> None]

\* The locals before the loop when the loop starts from an empty dict whatever
\* the caller passed.
EnterFetchWithoutParams(ep, p, mp, ps) ==
  LET d2 == DictSet(EmptyDict, "pageSize", ps)
  IN /\ pc' = "loop" /\ endpoint' = ep /\ max_pages' = mp /\ pagesize' = ps
     /\ params' = d2
     /\ caller_params' = p
     /\ page' = 0 /\ all_data' = <<>> /\ total_count' = 0
     /\ outcome' = "none" /\ exc' = "none" /\ ret' = None
     /\ srv' = [regular |-> TRUE, totalPages |-> None]

\* Lines 34-39 of fetch_paginated: the locals before the loop.  A truthy params
\* is the caller's own dict, so the pageSize key is written into it.
EnterFetch(ep, p, mp, ps) ==
  LET d == IF DictTruthy(p) THEN Val(p) ELSE EmptyDict
      d2 == DictSet(d, "pageSize", ps)
  IN /\ pc' = "loop"
     /\ endpoint' = ep
     /\ max_pages' = mp
     /\ pagesize' = ps
     /\ params' = d2
     /\ caller_params' = IF DictTruthy(p) THEN Some(d2) ELSE p
     /\ page' = 0
     /\ all_data' = <<>>
     /\ total_count' = 0
     /\ outcome' = "none"
     /\ exc' = "none"
     /\ ret' = None
     /\ srv' = [regular |-> TRUE, totalPages |-> None]

\* A return that hands out no records.
FetchReturnsEmpty(data, tc, pg) ==
  /\ pc' = "done"
  /\ outcome' = "returned"
  /\ exc' = "none"
  /\ ret' = Some([data |-> <<>>, meta |-> Meta(tc, 0, Some(pg + 1), FALSE)])

\* Lines 73-84: the summary and the return.
FetchReturns(data, tc, pg) ==
  /\ pc' = "done"
  /\ outcome' = "returned"
  /\ exc' = "none"
  /\ ret' = Some([data |-> data, meta |-> Meta(tc, Len(data), Some(pg + 1), FALSE)])

FetchRaisesSwallowed(e) ==
  /\ pc' = "done"
  /\ outcome' = "returned"
  /\ exc' = "none"
  /\ ret' = Some([data |-> all_data,
                  meta |-> Meta(total_count, Len(all_data), Some(page + 1), TRUE)])

\* No try/except around client._get (line 44) or the loop: an exception leaves
\* fetch_paginated and nothing is returned.
FetchRaises(e) ==
  /\ pc' = "done"
  /\ outcome' = "raised"
  /\ exc' = e
  /\ ret' = None

\* The server answered like a paginated collection: a non-empty page, currentPage
\* the page asked for, and one and the same totalPages >= 1 on every page.
Regular(got, body, data) ==
  /\ srv.regular
  /\ ~got.raised /\ got.sent = 1
  /\ body.hasResult
  /\ data.kind = "list" /\ Len(data.data) > 0
  /\ body.currentPage = Some(page)
  /\ ~IsNone(body.totalPages) /\ Val(body.totalPages) >= 1
  /\ IsNone(srv.totalPages) \/ srv.totalPages = body.totalPages

Irregular == [regular |-> FALSE, totalPages |-> None]

\* Line 41: the loop condition.
WhileCond == IsNone(max_pages) \/ page < Val(max_pages)

\* Lines 65-66: total_pages capped by max_pages.
CapTotalPages(total_pages, mp) ==
  IF ~IsNone(mp) THEN Min(total_pages, Val(mp)) ELSE total_pages

\* A last-page test that is late by one page.
LastPageOffByOne(current_page, total_pages) == current_page >= total_pages

\* Line 68: the last page was read.
LastPage(current_page, total_pages) == current_page >= total_pages - 1

\* A total that ignores what the server reports.
TotalCountRetrieved(body, all) == Len(all)

\* Line 60: total_count = pagination.get('totalCount', len(all_data)).
TotalCount(body, all) ==
  IF IsNone(body.totalCount) THEN Len(all) ELSE Val(body.totalCount)

\* all_data with the records of the page in front of it.
ExtendFront(all, data) == data \o all

\* Line 55: all_data.extend(data).
Extend(all, data) == all \o data

\* Lines 42-71: one iteration of the loop, after the request was answered.
FetchBody(got, sentParams) ==
  LET body == got.body
      data == _extract_data(body.result)
      req == Request("GET", endpoint, sentParams, got)
  IN /\ reqs' = Append(reqs, req)
     /\ IF got.raised
        THEN /\ FetchRaises(got.exc)
             /\ srv' = Irregular
             /\ UNCHANGED <<page, all_data, total_count>>
        ELSE IF ~body.hasResult \/ ~Truthy(data)
        THEN /\ FetchReturns(all_data, total_count, page)
             /\ srv' = Irregular
             /\ UNCHANGED <<page, all_data, total_count>>
        ELSE IF data.kind # "list"
        THEN \* all_data.extend(data) on a number: TypeError
             /\ FetchRaises("TypeError")
             /\ srv' = Irregular
             /\ UNCHANGED <<page, all_data, total_count>>
        ELSE LET all2 == Extend(all_data, data.data)
                 tc == TotalCount(body, all2)
                 current_page == IF IsNone(body.currentPage) THEN page
                                 ELSE Val(body.currentPage)
                 total_pages == CapTotalPages(
                                  IF IsNone(body.totalPages) THEN 1
                                  ELSE Val(body.totalPages), max_pages)
             IN /\ all_data' = all2
                /\ total_count' = tc
                /\ srv' = IF Regular(got, body, data)
                          THEN [regular |-> TRUE, totalPages |-> body.totalPages]
                          ELSE Irregular
                /\ IF LastPage(current_page, total_pages)
                   THEN /\ FetchReturns(all2, tc, page)
                        /\ page' = page
                   ELSE /\ page' = page + 1
                        /\ UNCHANGED <<pc, outcome, exc, ret>>

\* fetch_paginated, one step: the loop test, and if it passes one page request
\* that the server answers with one of firsts (seconds after a re-authentication).
FetchStep(firsts, seconds) ==
  /\ pc = "loop"
  /\ op \in {"fetch", "search"}
  /\ IF ~WhileCond
     THEN /\ FetchReturns(all_data, total_count, page)
          /\ UNCHANGED <<params, caller_params, page, all_data, total_count, reqs, srv>>
     ELSE /\ IsNone(max_pages) => page < MaxLoopPages
          /\ LET sent == DictSet(params, "page", page)
             IN /\ params' = sent
                /\ caller_params' = IF DictTruthy(caller_params) THEN Some(sent)
                                    ELSE caller_params
                /\ \E first \in firsts :
                     IF first.status = "token_error"
                     THEN \/ FetchBody(ClientGet(first, FALSE, first), sent)
                          \/ \E second \in seconds :
                               FetchBody(ClientGet(first, TRUE, second), sent)
                     ELSE FetchBody(ClientGet(first, FALSE, first), sent)
  /\ UNCHANGED <<op, endpoint, max_pages, pagesize, search_response, response>>

FetchPage == FetchStep(Exchanges(page), RetryExchanges(page))

OptPages == {None} \cup {Some(n) : n \in 0..MaxPagesArg}

\* A caller invokes fetch_paginated(client, endpoint, params, max_pages, pagesize).
FetchCallWith(p) ==
  /\ pc = "idle"
  /\ \E ep \in Endpoints, mp \in OptPages, ps \in PageSizes :
       EnterFetch(ep, p, mp, ps)
  /\ op' = "fetch"
  /\ reqs' = <<>>
  /\ search_response' = None
  /\ response' = None

FetchCall == \E p \in CallerParams : FetchCallWith(p)


(***************************************************************************)
(* helpers.search_paginated: POST search/{service}, then either the inline *)
(* data of the answer or fetch_paginated on search/{service}/{handle}.     *)
(***************************************************************************)
Services == {<<"s">>}
Handles == {<<"h">>}
SearchParams == {EmptyDict, [k \in {"f"} |-> 1]}

Join(a, b) == a \o <<"/">> \o b

\* 'result' values of a submission answer.  A handle may come as the empty string.
SubmitResults ==
  {JHandleDict(Some(h)) : h \in Handles \cup {<<>>}}
    \cup {[JDataDict(PageRows(0, n)) EXCEPT !.handle = Some(h)] :
            n \in {0} \cup RowCounts, h \in Handles}
    \cup {JDataDict(PageRows(0, n)) : n \in {0} \cup RowCounts}
    \cup {JList(PageRows(0, n)) : n \in {0} \cup RowCounts}
    \cup {JDict(10), JDict(0), JNull, JNum, JDataOther("null"), JDataOther("num")}

SubmitExchanges ==
  {[status |-> "ok", body |-> NoResultBody]}
    \cup {[status |-> "ok",
           body |-> [NoResultBody EXCEPT !.hasResult = TRUE, !.result = r]] :
            r \in SubmitResults}
    \cup Failures

\* Lines 127-129: result = search_response.get('result', {}).
SubmitResult(body) == IF body.hasResult THEN body.result ELSE JDict(0)

\* A searchResultsDbId that is present, truthy or not.
HasHandleKey(result) == ~IsNone(result.handle)

\* A truthy searchResultsDbId.
HasHandle(result) == ~IsNone(result.handle) /\ Val(result.handle) # <<>>

\* f"search/{service}"
SearchEndpoint(svc) == Join(<<"s", "e", "a", "r", "c", "h">>, svc)

\* search_paginated(client, service, search_params, max_pages, pagesize) when the
\* server answers the POST with x.
SearchBody(svc, sp, mp, ps, x) ==
   LET post == Request("POST", SearchEndpoint(svc), sp,
                       [sent |-> 1, raised |-> x.status # "ok"])
       result == SubmitResult(x.body)
   IN /\ search_response' = Some(x)
      /\ response' = None
      /\ op' = "search"
      /\ reqs' = <<post>>
      /\ IF x.status = "http_error"
         THEN \* lines 118-125: RequestException gives an empty result with 'error'
              /\ pc' = "done"
              /\ outcome' = "returned"
              /\ exc' = "none"
              /\ ret' = Some([data |-> <<>>, meta |-> Meta(0, 0, None, TRUE)])
              /\ UNCHANGED <<endpoint, max_pages, pagesize, params, caller_params,
                             page, all_data, total_count, srv>>
         ELSE IF x.status = "token_error"
         THEN /\ FetchRaises("InvalidTokenError")
              /\ UNCHANGED <<endpoint, max_pages, pagesize, params, caller_params,
                             page, all_data, total_count, srv>>
         ELSE IF result.kind # "dict"
         THEN \* result.get on a list, a number or None
              /\ FetchRaises("AttributeError")
              /\ UNCHANGED <<endpoint, max_pages, pagesize, params, caller_params,
                             page, all_data, total_count, srv>>
         ELSE IF ~HasHandle(result)
         THEN LET data == _extract_data(result)
              IN /\ IF data.kind = "list"
                    THEN /\ pc' = "done"
                         /\ outcome' = "returned"
                         /\ exc' = "none"
                         /\ ret' = Some([data |-> data.data,
                                         meta |-> Meta(Len(data.data), Len(data.data),
                                                       None, FALSE)])
                    ELSE \* len(data) on None or a number
                         FetchRaises("TypeError")
                 /\ UNCHANGED <<endpoint, max_pages, pagesize, params, caller_params,
                                page, all_data, total_count, srv>>
         ELSE EnterFetch(Join(SearchEndpoint(svc), Val(result.handle)), None, mp, ps)

SearchCall ==
  /\ pc = "idle"
  /\ \E svc \in Services, sp \in SearchParams, mp \in OptPages, ps \in PageSizes,
        x \in SubmitExchanges :
       SearchBody(svc, sp, mp, ps, x)

(***************************************************************************)
(* client.BrAPIClient (legacy): _make_request and _fetch_all_pages.        *)
(***************************************************************************)
LegacyResults(p) == RecordResults(p) \cup QuietResults

LegacyBodies(p) ==
  {NoResultBody}
    \cup {[hasResult |-> TRUE, result |-> r, totalCount |-> None,
           currentPage |-> cp, totalPages |-> tp] :
            r \in LegacyResults(p), cp \in OptCurrent(p), tp \in OptPage}

LegacyExchanges(p) == {[status |-> "ok", body |-> b] : b \in LegacyBodies(p)} \cup Failures

\* _make_request: a RequestException is printed and {} is returned.
MakeRequest(x) ==
  IF x.status = "ok" THEN [raised |-> FALSE, exc |-> "none", body |-> x.body, sent |-> 1]
  ELSE IF x.status = "http_error"
  THEN [raised |-> FALSE, exc |-> "none", body |-> NoResultBody, sent |-> 1]
  ELSE [raised |-> TRUE, exc |-> "InvalidTokenError", body |-> NoResultBody, sent |-> 1]

LegacyReturns(data) ==
  /\ pc' = "done"
  /\ outcome' = "returned"
  /\ exc' = "none"
  /\ ret' = Some([data |-> data, meta |-> Meta(0, Len(data), None, FALSE)])

LegacyCallWith(p) ==
  /\ pc = "idle"
  /\ \E ep \in Endpoints, mp \in 0..MaxPagesArg, ps \in PageSizes :
       EnterFetch(ep, p, Some(mp), ps)
  /\ op' = "legacy"
  /\ reqs' = <<>>
  /\ search_response' = None
  /\ response' = None

LegacyCall == \E p \in CallerParams : LegacyCallWith(p)

\* Lines 117-145 of client.py: one iteration of the loop.
LegacyBody(got, sentParams) ==
  LET body == got.body
      result == body.result
      current_page == IF IsNone(body.currentPage) THEN page ELSE Val(body.currentPage)
      total_pages == Min(IF IsNone(body.totalPages) THEN 1 ELSE Val(body.totalPages),
                         Val(max_pages))
      \* response['result'].get('data', [])
      data == IF result.hasData THEN DataOf(result) ELSE JList(<<>>)
  IN /\ reqs' = Append(reqs, Request("GET", endpoint, sentParams, got))
     /\ response' = IF got.raised THEN None ELSE Some(body)
     /\ srv' = Irregular
     /\ IF got.raised
        THEN FetchRaises(got.exc) /\ UNCHANGED <<page, all_data>>
        ELSE IF ~body.hasResult
        THEN LegacyReturns(all_data) /\ UNCHANGED <<page, all_data>>
        ELSE IF total_pages = 1
        THEN LegacyReturns(<<result>>) /\ UNCHANGED <<page, all_data>>
        ELSE IF result.kind # "dict"
        THEN FetchRaises("AttributeError") /\ UNCHANGED <<page, all_data>>
        ELSE IF ~Truthy(data)
        THEN LegacyReturns(all_data) /\ UNCHANGED <<page, all_data>>
        ELSE IF data.kind # "list"
        THEN FetchRaises("TypeError") /\ UNCHANGED <<page, all_data>>
        ELSE /\ all_data' = all_data \o data.data
             /\ IF current_page >= total_pages - 1
                THEN LegacyReturns(all_data \o data.data) /\ page' = page
                ELSE page' = page + 1 /\ UNCHANGED <<pc, outcome, exc, ret>>

LegacyPage ==
  /\ pc = "loop"
  /\ op = "legacy"
  /\ IF ~(page < Val(max_pages))
     THEN /\ LegacyReturns(all_data)
          /\ UNCHANGED <<params, caller_params, page, all_data, reqs, srv, response>>
     ELSE LET sent == DictSet(params, "page", page)
          IN /\ params' = sent
             /\ caller_params' = IF DictTruthy(caller_params) THEN Some(sent)
                                 ELSE caller_params
             /\ \E x \in LegacyExchanges(page) : LegacyBody(MakeRequest(x), sent)
  /\ UNCHANGED <<op, endpoint, max_pages, pagesize, total_count, search_response>>

\* The caller has its result; the next call starts from fresh locals.
Reset ==
  /\ pc = "done"
  /\ pc' = "idle" /\ op' = "none" /\ endpoint' = <<>> /\ max_pages' = None
  /\ pagesize' = 0 /\ params' = EmptyDict /\ caller_params' = None /\ page' = 0
  /\ all_data' = <<>> /\ total_count' = 0 /\ outcome' = "none" /\ exc' = "none"
  /\ ret' = None /\ reqs' = <<>>
  /\ srv' = [regular |-> TRUE, totalPages |-> None]
  /\ search_response' = None
  /\ response' = None

(***************************************************************************)
(* _extract_data applied to one value (a pure function).                   *)
(***************************************************************************)
VARIABLES
  result_obj,     \* the argument
  extracted       \* None before the call, Some(value returned) after it

extractVars == <<result_obj, extracted>>

RECURSIVE SeqsUpTo(_, _)
SeqsUpTo(S, n) ==
  IF n = 0 THEN {<<>>}
  ELSE LET shorter == SeqsUpTo(S, n - 1)
       IN shorter \cup {Append(q, x) : q \in {t \in shorter : Len(t) = n - 1}, x \in S}

\* JSON values a server can put under 'result'.
ExtractInputs ==
  LET lists == SeqsUpTo({Row(0, i) : i \in 1..MaxPageRows}, MaxPageRows + 1)
  IN {JDataDict(l) : l \in lists}
       \cup {[JDataDict(l) EXCEPT !.handle = Some(h)] : l \in lists, h \in Handles}
       \cup {JList(l) : l \in lists}
       \cup {JDict(i) : i \in 0..MaxPageRows}
       \cup {JHandleDict(Some(h)) : h \in Handles}
       \cup {JNull, JNum, JDataOther("null"), JDataOther("num")}

ExtractIdle == result_obj = JNull /\ extracted = None

ExtractInit == result_obj \in ExtractInputs /\ extracted = None

ExtractCall ==
  /\ IsNone(extracted)
  /\ extracted' = Some(_extract_data(result_obj))
  /\ UNCHANGED result_obj

(***************************************************************************)
(* mcp_server/session/result_cache.py: ResultCache on one cache directory. *)
(* The directory holds the data files {result_id}.{format} and the index   *)
(* cache_metadata.json; every ResultCache instance holds its own copy of   *)
(* the index in self.metadata.  Calls run in threads, one step at a time.  *)
(***************************************************************************)
MaxClock == 2          \* the clock stops here

\* Files older than this many clock periods are swept (days=30, one period).
RetentionPeriods == 1

Threads == {"t1", "t2"}
Instances == {"i1", "i2"}
ResultIds == {<<"a">>, <<"b">>}
Formats == {"csv"}

\* A DataFrame: its rows and its columns.
Frame(n) == [rows |-> [i \in 1..n |-> Row(0, i)], columns |-> <<"c">>]
Frames == {Frame(1), Frame(2)}

\* file_path.stat().st_size: a header cell per column and a cell per value.
SizeBytes(df) == Len(df.columns) + Len(df.rows) * Len(df.columns)

FilePath(result_id, format) == <<result_id, format>>

VARIABLES
  files,          \* data files of the directory: path -> [df, mtime]
  index_file,     \* cache_metadata.json: None, or Some([entries, mtime])
  metadata,       \* instance -> None (not constructed) or Some(self.metadata)
  th,             \* thread -> the call it runs and its position in it
  now             \* the clock, in retention periods

cacheVars == <<files, index_file, metadata, th, now>>

NoFrame == [rows |-> <<>>, columns |-> <<>>]
IdleThread == [pc |-> "idle", inst |-> "i1", result_id |-> <<>>, df |-> NoFrame,
               format |-> "csv", calls |-> 0, ret |-> None]

CacheInit ==
  /\ files = EmptyDict
  /\ index_file = None
  /\ metadata = [i \in Instances |-> None]
  /\ th = [t \in Threads |-> IdleThread]
  /\ now = 0

DictDel(d, k) == [x \in (DOMAIN d) \ {k} |-> d[x]]

\* ResultCache.__init__ and _load_metadata.
Open(i) ==
  /\ IsNone(metadata[i])
  /\ metadata' = [metadata EXCEPT ![i] =
                    Some(IF IsNone(index_file) THEN EmptyDict ELSE Val(index_file).entries)]
  /\ UNCHANGED <<files, index_file, th, now>>

\* _save_metadata: the index file is rewritten from the instance's self.metadata.
SaveMetadata(i) == index_file' = Some([entries |-> Val(metadata[i]), mtime |-> now])

\* save_result is called (lines 57-65: the data is a DataFrame).
SaveCall(t, i, result_id, df, format) ==
  /\ th[t].pc = "idle"
  /\ ~IsNone(metadata[i])
  /\ th' = [th EXCEPT ![t] = [@ EXCEPT !.pc = "save_file", !.inst = i,
                                       !.result_id = result_id, !.df = df,
                                       !.format = format, !.ret = None]]
  /\ UNCHANGED <<files, index_file, metadata, now>>

\* Lines 67-78: the data file is written.
SaveFile(t) ==
  /\ th[t].pc = "save_file"
  /\ files' = DictSet(files, FilePath(th[t].result_id, th[t].format),
                      [df |-> th[t].df, mtime |-> now])
  /\ th' = [th EXCEPT ![t].pc = "save_entry"]
  /\ UNCHANGED <<index_file, metadata, now>>

\* The index entry of lines 81-92: counts from the caller's frame, size from the
\* file as it is on disk now.
Entry(result_id, df, format, size, created) ==
  [result_id |-> result_id, file_path |-> FilePath(result_id, format),
   format |-> format, row_count |-> Len(df.rows),
   column_count |-> Len(df.columns), columns |-> df.columns,
   size_bytes |-> size, created_at |-> created]

\* Lines 81-92: self.metadata[result_id] = {...}.
SaveEntry(t) ==
  LET path == FilePath(th[t].result_id, th[t].format)
      i == th[t].inst
  IN /\ th[t].pc = "save_entry"
     /\ IF path \in DOMAIN files
        THEN /\ metadata' = [metadata EXCEPT ![i] =
                  Some(DictSet(Val(@), th[t].result_id,
                               Entry(th[t].result_id, th[t].df, th[t].format,
                                     SizeBytes(files[path].df), now)))]
             /\ th' = [th EXCEPT ![t].pc = "save_dump"]
        ELSE \* file_path.stat() on a file that is gone: FileNotFoundError
             /\ th' = [th EXCEPT ![t].pc = "idle", ![t].calls = 1,
                                 ![t].ret = Some("raised")]
             /\ UNCHANGED metadata
     /\ UNCHANGED <<files, index_file, now>>

\* Lines 93-95: _save_metadata and the return.
SaveDump(t) ==
  /\ th[t].pc = "save_dump"
  /\ SaveMetadata(th[t].inst)
  /\ th' = [th EXCEPT ![t].pc = "idle", ![t].calls = 1, ![t].ret = Some("saved")]
  /\ UNCHANGED <<files, metadata, now>>

\* delete_result, lines 158-159: an id that is not in self.metadata gives False.
DeleteCall(t, i, result_id) ==
  /\ th[t].pc = "idle"
  /\ ~IsNone(metadata[i])
  /\ th' = [th EXCEPT ![t] =
              IF result_id \in DOMAIN Val(metadata[i])
              THEN [@ EXCEPT !.pc = "del_file", !.inst = i, !.result_id = result_id,
                             !.df = NoFrame, !.ret = None]
              ELSE [@ EXCEPT !.inst = i, !.result_id = result_id, !.df = NoFrame,
                             !.calls = 1, !.ret = Some("false")]]
  /\ UNCHANGED <<files, index_file, metadata, now>>

\* Lines 161-165: the data file is removed if it exists.
DeleteFile(t) ==
  LET i == th[t].inst
      id == th[t].result_id
  IN /\ th[t].pc = "del_file"
     /\ IF id \in DOMAIN Val(metadata[i])
        THEN /\ files' = DictDel(files, Val(metadata[i])[id].file_path)
             /\ th' = [th EXCEPT ![t].pc = "del_dump"]
        ELSE \* info = self.metadata[result_id]: KeyError
             /\ th' = [th EXCEPT ![t].pc = "idle", ![t].calls = 1,
                                 ![t].ret = Some("raised")]
             /\ UNCHANGED files
     /\ UNCHANGED <<index_file, metadata, now>>

\* A delete_result that forgets self._save_metadata(): the entry leaves
\* self.metadata only.
DeleteDumpInMemory(t) ==
  LET i == th[t].inst
      id == th[t].result_id
  IN /\ th[t].pc = "del_dump"
     /\ id \in DOMAIN Val(metadata[i])
     /\ metadata' = [metadata EXCEPT ![i] = Some(DictDel(Val(@), id))]
     /\ th' = [th EXCEPT ![t].pc = "idle", ![t].calls = 1, ![t].ret = Some("true")]
     /\ UNCHANGED <<files, index_file, now>>

\* Lines 167-170: the entry is removed, the index rewritten, True returned.
DeleteDump(t) ==
  LET i == th[t].inst
      id == th[t].result_id
  IN /\ th[t].pc = "del_dump"
     /\ IF id \in DOMAIN Val(metadata[i])
        THEN /\ metadata' = [metadata EXCEPT ![i] = Some(DictDel(Val(@), id))]
             /\ index_file' = Some([entries |-> DictDel(Val(metadata[i]), id),
                                    mtime |-> now])
             /\ th' = [th EXCEPT ![t].pc = "idle", ![t].calls = 1,
                                 ![t].ret = Some("true")]
        ELSE /\ th' = [th EXCEPT ![t].pc = "idle", ![t].calls = 1,
                                 ![t].ret = Some("raised")]
             /\ UNCHANGED <<metadata, index_file>>
     /\ UNCHANGED <<files, now>>

\* The process dies: running calls and the instances are gone, the directory stays.
Crash ==
  /\ \E i \in Instances : ~IsNone(metadata[i])
  /\ metadata' = [i \in Instances |-> None]
  /\ th' = [t \in Threads |-> IdleThread]
  /\ UNCHANGED <<files, index_file, now>>

\* utils/maintenance.cleanup_old_files, run by main before any cache is opened:
\* every file of the sessions directory older than the limit is removed, the
\* index file like any other.
Cleanup ==
  LET limit == now - RetentionPeriods
  IN /\ \A i \in Instances : IsNone(metadata[i])
     /\ files' = [f \in {g \in DOMAIN files : ~(files[g].mtime < limit)} |-> files[f]]
     /\ index_file' = IF ~IsNone(index_file) /\ Val(index_file).mtime < limit
                      THEN None ELSE index_file
     /\ UNCHANGED <<metadata, th, now>>

\* Time passes.
Tick ==
  /\ now < MaxClock
  /\ now' = now + 1
  /\ UNCHANGED <<files, index_file, metadata, th>>

Quiescent == \A t \in Threads : th[t].pc = "idle"

(***************************************************************************)
(* Reading results back: ResultCache.load_result, and the load_result tool *)
(* and the brapi://results/{session_id}/{result_id} resource of            *)
(* mcp_server/tools/file_handling/result_cache.py.                         *)
(***************************************************************************)
\* Record sets that are saved and loaded: none at all, one record, two records.
LoadFrames == {[rows |-> <<>>, columns |-> <<>>], Frame(1), Frame(2)}
LoadFormats == {"csv", "json"}
LoadIds == {<<"a">>}

\* Arguments of the loads.
Limits == {None, Some(0), Some(1)}
Offsets == {0, 1}
ColumnFilters == {None, Some(<<"c">>)}

\* df.head(n), data[:n]
FirstRows(rows, n) == SubSeq(rows, 1, Min(Len(rows), n))

\* data[n:]
SkipRows(rows, n) == SubSeq(rows, Min(Len(rows), n) + 1, Len(rows))

ReadRaises(e) == [raised |-> TRUE, exc |-> e, df |-> NoFrame]
ReadGives(df) == [raised |-> FALSE, exc |-> "none", df |-> df]

\* Lines 125-134 of load_result.  csv: pd.read_csv(file_path, nrows=limit), which
\* finds no columns to parse in the file of a frame without columns.  json:
\* pd.read_json(file_path), then head(limit) for a truthy limit.
ReadFrame(path, format, limit) ==
  IF path \notin DOMAIN files THEN ReadRaises("FileNotFoundError")
  ELSE LET stored == files[path].df
       IN IF format = "csv"
          THEN IF stored.columns = <<>> THEN ReadRaises("EmptyDataError")
               ELSE IF IsNone(limit) THEN ReadGives(stored)
               ELSE ReadGives([stored EXCEPT !.rows = FirstRows(@, Val(limit))])
          ELSE IF ~IsNone(limit) /\ Val(limit) # 0
               THEN ReadGives([stored EXCEPT !.rows = FirstRows(@, Val(limit))])
               ELSE ReadGives(stored)

\* Lines 137-139: the requested columns that the frame has.
FilterColumns(df, columns) ==
  IF IsNone(columns) \/ Val(columns) = <<>> THEN df
  ELSE [df EXCEPT !.columns =
          SelectSeq(Val(columns),
                    LAMBDA c : \E k \in 1..Len(df.columns) : df.columns[k] = c)]

NoSlice == [total_rows |-> 0, returned_rows |-> 0, columns |-> <<>>,
            truncated |-> FALSE, offset |-> None]

\* What a load hands to its caller.
Loaded(kind, e, data, meta) ==
  [kind |-> kind, exc |-> e, data |-> data, meta |-> meta]

\* ResultCache.load_result(result_id, limit, columns) on instance i.
CacheLoadResult(i, result_id, limit, columns) ==
  IF result_id \notin DOMAIN Val(metadata[i])
  THEN Loaded("raised", "ValueError", <<>>, NoSlice)
  ELSE LET info == Val(metadata[i])[result_id]
           read == ReadFrame(info.file_path, info.format, limit)
           df == FilterColumns(read.df, columns)
       IN IF read.raised THEN Loaded("raised", read.exc, <<>>, NoSlice)
          ELSE Loaded("data", "none", df.rows,
                      [total_rows |-> info.row_count,
                       returned_rows |-> Len(df.rows),
                       columns |-> df.columns,
                       truncated |-> ~IsNone(limit) /\ Val(limit) < info.row_count,
                       offset |-> None])

\* The load_result tool (lines 130-145): the cache's load_result, then the offset.
ToolLoadResult(i, result_id, limit, columns, offset) ==
  LET result_data == CacheLoadResult(i, result_id, limit, columns)
      skipped == SkipRows(result_data.data, offset)
      data == IF ~IsNone(limit) /\ Val(limit) # 0 THEN FirstRows(skipped, Val(limit))
              ELSE skipped
  IN IF result_data.kind = "raised"
     THEN Loaded("error", result_data.exc, <<>>, NoSlice)
     ELSE IF offset > 0
     THEN Loaded("data", "none", data, [result_data.meta EXCEPT !.offset = Some(offset)])
     ELSE result_data

\* The get_result resource (lines 42-60): the file's text for a known small result.
ResourceGetResult(i, result_id) ==
  IF result_id \notin DOMAIN Val(metadata[i])
  THEN Loaded("not_found", "none", <<>>, NoSlice)
  ELSE LET info == Val(metadata[i])[result_id]
       IN IF info.row_count > 1000 THEN Loaded("too_large", "none", <<>>, NoSlice)
          ELSE IF info.file_path \notin DOMAIN files
          THEN Loaded("raised", "FileNotFoundError", <<>>, NoSlice)
          ELSE Loaded("text", "none", files[info.file_path].df.rows, NoSlice)

VARIABLES
  loaded          \* the load that was answered last: its arguments and its answer

loadVars == <<loaded>>

NoLoad == [via |-> "none", result_id |-> <<>>, limit |-> None, columns |-> None,
           offset |-> 0, out |-> Loaded("none", "none", <<>>, NoSlice)]

LoadInit == loaded = NoLoad

\* One load through one of the three paths, between the other calls.
LoadCall(t, i, via, result_id, limit, columns, offset) ==
  /\ th[t].pc = "idle"
  /\ ~IsNone(metadata[i])
  /\ loaded' = [via |-> via, result_id |-> result_id, limit |-> limit,
                columns |-> columns, offset |-> offset,
                out |-> CASE via = "cache" -> CacheLoadResult(i, result_id, limit, columns)
                          [] via = "tool" ->
                               ToolLoadResult(i, result_id, limit, columns, offset)
                          [] via = "resource" -> ResourceGetResult(i, result_id)]
  /\ UNCHANGED cacheVars

(***************************************************************************)
(* mcp_server/tools/generic/tools.py: brapi_get and brapi_search, with     *)
(* client/capabilities/helpers.py.  A tool call checks the capabilities,   *)
(* runs the fetch engine, stores the rows in the session's ResultCache     *)
(* under a result_id and answers with that id.                             *)
(***************************************************************************)
\* Endpoint paths of the server capabilities (module.endpoints keys).
CapabilityEndpoints == {<<"a", "b">>, SearchEndpoint(<<"a", "b">>)}

\* Arguments the tools are called with.
ToolServices == {<<"a", "b">>, <<"a">>, <<"/", "x">>}
ToolDbIds == {None, Some(<<"d">>)}
ToolSubs == {None, Some(<<"c", "a", "l", "l", "s">>), Some(<<"z">>)}
ToolMaxResults == {1, 100}

\* str.lstrip('/')
RECURSIVE LStripSlash(_)
LStripSlash(str) ==
  IF str # <<>> /\ Head(str) = "/" THEN LStripSlash(Tail(str)) ELSE str

\* a in b, for strings
IsSubstring(a, b) ==
  \E i \in 0..(Len(b) - Len(a)) : SubSeq(b, i + 1, i + Len(a)) = a

\* str.startswith
StartsWith(str, prefix) ==
  Len(prefix) <= Len(str) /\ SubSeq(str, 1, Len(prefix)) = prefix

\* str.replace(old, '')
RECURSIVE RemoveAll(_, _)
RemoveAll(str, old) ==
  IF str = <<>> THEN <<>>
  ELSE IF StartsWith(str, old) THEN RemoveAll(SubSeq(str, Len(old) + 1, Len(str)), old)
  ELSE <<Head(str)>> \o RemoveAll(Tail(str), old)

check_endpoint_exists(capabilities, service) ==
  LET service_clean == LStripSlash(service)
  IN \E ep \in capabilities : IsSubstring(service_clean, ep)

\* sorted(set(...)): the set of names stands for the sorted list.
list_all_services(capabilities) == capabilities

list_search_services(capabilities) ==
  {RemoveAll(ep, SearchEndpoint(<<>>)) :
     ep \in {e \in capabilities : StartsWith(e, SearchEndpoint(<<>>))}}

\* Server answers to a tool's page requests: full pages of a collection of one
\* page or of MaxTotalPages pages, an empty page, and the failures.
ToolBodies(p) ==
  {[hasResult |-> TRUE, result |-> JDataDict(PageRows(p, n)), totalCount |-> tc,
    currentPage |-> Some(p), totalPages |-> tp] :
     n \in {0, MaxPageRows}, tc \in {Some(MaxTotalCount)},
     tp \in {Some(1), Some(MaxTotalPages)}}
ToolExchanges(p) == {[status |-> "ok", body |-> b] : b \in ToolBodies(p)} \cup Failures
ToolRetryExchanges(p) ==
  {[status |-> "ok", body |-> b] :
     b \in {c \in ToolBodies(p) : c.totalPages = Some(1)}}

\* Answers to a tool's search submission: a handle, inline rows, a failure.
ToolSubmitExchanges ==
  {[status |-> "ok",
    body |-> [NoResultBody EXCEPT !.hasResult = TRUE, !.result = r]] :
     r \in {JHandleDict(Some(<<"h">>)), JDataDict(PageRows(0, MaxPageRows))}}
    \cup {[status |-> "http_error", body |-> NoResultBody]}

\* Byte values of the characters that occur.
CharCode(c) ==
  CASE c = "a" -> 97 [] c = "b" -> 98 [] c = "c" -> 99 [] c = "d" -> 100
    [] c = "l" -> 108 [] c = "s" -> 115 [] c = "x" -> 120 [] c = "z" -> 122
    [] c = "e" -> 101 [] c = "f" -> 102 [] c = "g" -> 103 [] c = "h" -> 104
    [] c = "i" -> 105 [] c = "p" -> 112 [] c = "r" -> 114 [] c = "S" -> 83
    [] c = "/" -> 47 [] OTHER -> 63

StrBytes(str) == <<34>> \o [i \in 1..Len(str) |-> CharCode(str[i])] \o <<34>>

\* json.dumps of None or a string
OptStrBytes(o) == IF IsNone(o) THEN <<110>> ELSE StrBytes(Val(o))

\* The keys a params dict can hold, in sort_keys order.
KeyOrder == <<"f", "page", "pageSize">>
KeyBytes(k) ==
  CASE k = "f" -> StrBytes(<<"f">>)
    [] k = "page" -> StrBytes(<<"p", "a", "g", "e">>)
    [] k = "pageSize" -> StrBytes(<<"p", "a", "g", "e", "S", "i", "z", "e">>)

RECURSIVE ItemsBytes(_, _)
ItemsBytes(d, keys) ==
  IF keys = <<>> THEN <<>>
  ELSE IF Head(keys) \in DOMAIN d
  THEN KeyBytes(Head(keys)) \o <<58, d[Head(keys)]>> \o <<44>>
         \o ItemsBytes(d, Tail(keys))
  ELSE ItemsBytes(d, Tail(keys))

\* json.dumps(dict, sort_keys=True) of None or a dict of numbers
OptDictBytes(o) ==
  IF IsNone(o) THEN <<110>> ELSE <<123>> \o ItemsBytes(Val(o), KeyOrder) \o <<125>>

\* 32-bit values are kept as two 16-bit halves <<high, low>>.
Add32(x, y) ==
  LET low == x[2] + y[2]
      high == x[1] + y[1] + (low \div (2 ^ 16))
  IN <<high % (2 ^ 16), low % (2 ^ 16)>>

\* What the byte at position i adds to the digest.
ByteTerm(bytes, i) ==
  <<(bytes[i] * (2 * i + 1)) % (2 ^ 16), (bytes[i] * 31 + 7 * i) % (2 ^ 16)>>

RECURSIVE DigestOf(_, _, _)
DigestOf(bytes, lo, hi) ==
  IF lo > hi THEN <<0, 7>>
  ELSE IF lo = hi THEN ByteTerm(bytes, lo)
  ELSE LET mid == (lo + hi) \div 2
       IN Add32(DigestOf(bytes, lo, mid), DigestOf(bytes, mid + 1, hi))

\* hashlib.md5(bytes).hexdigest()[:8]: 32 bits computed from every byte and its
\* position.
Digest(bytes) == DigestOf(bytes, 1, Len(bytes))

\* Lines 119-127 of brapi_get: the keys db_id, params, service, sub in sorted order.
GetResultId(service, db_id, sub, p) ==
  <<service, Digest(OptStrBytes(db_id) \o OptDictBytes(p) \o StrBytes(service)
                      \o OptStrBytes(sub))>>

\* Lines 236-243 of brapi_search.
SearchResultId(service, sp) ==
  <<SearchEndpoint(service), Digest(OptDictBytes(Some(sp)) \o StrBytes(service))>>

VARIABLES
  tool,           \* the tool call in progress: its arguments, position and answer
  prev            \* the tool call before it, once answered

toolVars == <<tool, prev>>

NoAnswer == [kind |-> "none", result_id |-> None, available |-> {}, saved |-> FALSE]
NoTool == [pc |-> "idle", name |-> "none", service |-> <<>>, db_id |-> None,
           sub |-> None, given |-> None, max_results |-> 0, answer |-> NoAnswer]

ToolInit == tool = NoTool /\ prev = None

\* The session's cache, as get_session_cache hands it out.
SessionCache == "i1"

\* pd.DataFrame(all_data): one column as soon as there is a record.
DataFrame(rows) == [rows |-> rows, columns |-> IF rows = <<>> THEN <<>> ELSE <<"c">>]

\* df.head(n): the first n rows, and for a negative n all rows but the last -n.
DfHead(df, n) ==
  LET keep == IF n >= 0 THEN Min(Len(df.rows), n)
              ELSE IF Len(df.rows) + n >= 0 THEN Len(df.rows) + n ELSE 0
  IN [df EXCEPT !.rows = SubSeq(df.rows, 1, keep)]

\* ResultCache.save_result as one uninterrupted call: the file, the entry, the index.
SaveResult(i, result_id, df, format) ==
  LET path == FilePath(result_id, format)
      entries == DictSet(Val(metadata[i]), result_id,
                         Entry(result_id, df, format, SizeBytes(df), now))
  IN /\ files' = DictSet(files, path, [df |-> df, mtime |-> now])
     /\ metadata' = [metadata EXCEPT ![i] = Some(entries)]
     /\ index_file' = Some([entries |-> entries, mtime |-> now])

Answer(kind, result_id, available, saved) ==
  [kind |-> kind, result_id |-> result_id, available |-> available, saved |-> saved]

SubResources == {<<"c", "a", "l", "l", "s">>, <<"c", "a", "l", "l", "s", "e", "t", "s">>,
                 <<"v", "a", "r", "i", "a", "n", "t", "s">>}

\* A truthy Optional[str].
StrTruthy(o) == ~IsNone(o) /\ Val(o) # <<>>

\* Lines 87-97 of brapi_get: '/'.join(endpoint_parts).
BuildEndpoint(service, db_id, sub) ==
  LET withId == IF StrTruthy(db_id) THEN Join(service, Val(db_id)) ELSE service
  IN IF StrTruthy(sub) THEN Join(withId, Val(sub)) ELSE withId

\* brapi_get(service, db_id, sub, params, max_results) up to its call of
\* fetch_paginated (lines 76-111).
BrapiGetCall(service, db_id, sub, p, max_results) ==
  LET call == [NoTool EXCEPT !.name = "brapi_get", !.service = service,
                             !.db_id = db_id, !.sub = sub, !.given = p,
                             !.max_results = max_results]
      early(kind, available) ==
        /\ tool' = [call EXCEPT !.pc = "done",
                                !.answer = Answer(kind, None, available, FALSE)]
        /\ UNCHANGED engineVars
      capped == Min(max_results, 500)
  IN /\ tool.pc = "idle" /\ pc = "idle"
     /\ ~IsNone(metadata[SessionCache])
     /\ IF ~check_endpoint_exists(CapabilityEndpoints, service)
        THEN early("capability_error", list_all_services(CapabilityEndpoints))
        ELSE IF StrTruthy(sub) /\ Val(sub) \notin SubResources
        THEN early("invalid_sub", {})
        ELSE IF StrTruthy(sub) /\ ~StrTruthy(db_id)
        THEN early("sub_requires_db_id", {})
        ELSE /\ EnterFetch(BuildEndpoint(service, db_id, sub), p,
                           Some((capped \div 100) + 1), Min(100, capped))
             /\ op' = "fetch"
             /\ reqs' = <<>>
             /\ search_response' = None
             /\ response' = None
             /\ tool' = [call EXCEPT !.pc = "fetching"]
     /\ UNCHANGED <<prev, cacheVars>>

\* Lines 113-178 of brapi_get, once fetch_paginated has returned or raised.
BrapiGetReturn ==
  /\ tool.pc = "fetching" /\ tool.name = "brapi_get" /\ pc = "done"
  /\ IF outcome = "raised"
     THEN /\ tool' = [tool EXCEPT !.pc = "done",
                                  !.answer = Answer("error", None, {}, FALSE)]
          /\ UNCHANGED cacheVars
     ELSE LET df == DfHead(DataFrame(Val(ret).data), Min(tool.max_results, 500))
              result_id == GetResultId(tool.service, tool.db_id, tool.sub, caller_params)
          IN /\ SaveResult(SessionCache, result_id, df, "csv")
             /\ tool' = [tool EXCEPT !.pc = "done",
                                     !.answer = Answer("result", Some(result_id), {}, TRUE)]
             /\ UNCHANGED <<th, now>>
  /\ UNCHANGED <<prev, engineVars>>

\* brapi_search(service, search_params, max_results) up to the return of the
\* submission inside search_paginated (lines 209-229).
BrapiSearchCall(service, sp, max_results, x) ==
  LET call == [NoTool EXCEPT !.name = "brapi_search", !.service = service,
                             !.given = Some(sp), !.max_results = max_results]
      capped == Min(max_results, 500)
  IN /\ tool.pc = "idle" /\ pc = "idle"
     /\ ~IsNone(metadata[SessionCache])
     /\ IF ~check_endpoint_exists(CapabilityEndpoints, SearchEndpoint(service))
        THEN /\ tool' = [call EXCEPT !.pc = "done",
                           !.answer = Answer("capability_error", None,
                                             list_search_services(CapabilityEndpoints),
                                             FALSE)]
             /\ UNCHANGED engineVars
        ELSE /\ SearchBody(service, sp, Some((capped \div 100) + 1), Min(100, capped), x)
             /\ tool' = [call EXCEPT !.pc = "fetching"]
     /\ UNCHANGED <<prev, cacheVars>>

\* Lines 231-289 of brapi_search, once search_paginated has returned or raised.
BrapiSearchReturn ==
  /\ tool.pc = "fetching" /\ tool.name = "brapi_search" /\ pc = "done"
  /\ IF outcome = "raised"
     THEN /\ tool' = [tool EXCEPT !.pc = "done",
                                  !.answer = Answer("error", None, {}, FALSE)]
          /\ UNCHANGED cacheVars
     ELSE LET df == DfHead(DataFrame(Val(ret).data), Min(tool.max_results, 500))
              result_id == SearchResultId(tool.service, Val(tool.given))
          IN /\ SaveResult(SessionCache, result_id, df, "csv")
             /\ tool' = [tool EXCEPT !.pc = "done",
                                     !.answer = Answer("result", Some(result_id), {}, TRUE)]
             /\ UNCHANGED <<th, now>>
  /\ UNCHANGED <<prev, engineVars>>

\* The page requests of the engine while a tool waits for it.
ToolPage ==
  /\ tool.pc = "fetching"
  /\ FetchStep(ToolExchanges(page), ToolRetryExchanges(page))
  /\ UNCHANGED <<toolVars, cacheVars>>

\* The answer is delivered; the client may call a tool once more.
ToolAnswered ==
  /\ tool.pc = "done" /\ IsNone(prev)
  /\ prev' = Some(tool)
  /\ tool' = NoTool
  /\ IF pc = "done" THEN Reset ELSE UNCHANGED engineVars
  /\ UNCHANGED cacheVars

(***************************************************************************)
(* The session manager (session/session_manager.py): a registry of         *)
(* sessions in sessions.json and one ResultCache per session directory.    *)
(***************************************************************************)
SessionClock == 1      \* the session runs end at this time

\* session_id arguments: None and 'e'.
ExplicitIds == {None, Some(<<"e">>)}

\* context arguments: None, an object without the attribute session_id, a
\* Context whose session_id is None, a Context whose session_id is 'c'.
Contexts == {None,
             Some([has_session_id |-> FALSE, session_id |-> None]),
             Some([has_session_id |-> TRUE, session_id |-> None]),
             Some([has_session_id |-> TRUE, session_id |-> Some(<<"c">>)])}

\* str(uuid.uuid4())[:8]
GeneratedIds == {<<"g">>}

SessionFrames == {Frame(1)}

\* self.base_cache_dir / final_session_id
RECURSIVE PathJoin(_)
\* What pathlib keeps of a relative id joined to the base directory: trailing
\* slashes are dropped ('e/' and 'e' give the same path).
PathJoin(id) ==
  IF Len(id) > 1 /\ id[Len(id)] = "/" THEN PathJoin(SubSeq(id, 1, Len(id) - 1))
  ELSE id

CacheDir(id) == <<"sessions", PathJoin(id)>>

VARIABLES
  registry_file,  \* sessions.json: None, or Some(the registry it holds)
  manager,        \* the SessionManager of the process: [registry, caches]
  dirs,           \* session directories: cache_dir -> [files, index]
  resolved,       \* the last get_or_create_session call, its outcome, and whether
                  \* the process that answered it still runs
  saved           \* the last result saved through a session cache

sessionVars == <<registry_file, manager, dirs, resolved, saved>>

NoResolution == [session_id |-> None, context |-> None, outcome |-> "none",
                 exc |-> "none", id |-> None, live |-> FALSE]

\* _load_registry: the registry of the file, {} if there is none.
LoadRegistry == IF IsNone(registry_file) THEN EmptyDict ELSE Val(registry_file)

\* SessionManager.__init__
NewManager == [registry |-> LoadRegistry, caches |-> EmptyDict]

SessionInit ==
  /\ registry_file = None
  /\ manager = [registry |-> EmptyDict, caches |-> EmptyDict]
  /\ dirs = EmptyDict
  /\ resolved = NoResolution
  /\ saved = None

\* Lines 52-60: which id the call is about.  None is what a Context without an
\* established session hands out as its session_id.
FinalSessionId(session_id, context, fresh) ==
  IF StrTruthy(session_id) THEN session_id
  ELSE IF ~IsNone(context) /\ Val(context).has_session_id THEN Val(context).session_id
  ELSE Some(fresh)

\* Lines 65-69: the entry of a new session.
NewSession(reg, id) ==
  DictSet(reg, id, [created_at |-> now, last_accessed |-> now, cache_dir |-> CacheDir(id)])

\* Line 73: the entry of a known session is touched.
TouchSession(reg, id) == [reg EXCEPT ![id].last_accessed = now]

\* A _save_registry that leaves the file as it is.
SaveRegistrySkipped(reg) == registry_file

\* _save_registry: what sessions.json holds afterwards.
SaveRegistry(reg) == Some(reg)

\* A ResultCache that starts without reading cache_metadata.json.
OpenSessionCacheBlank(d) == [cache_dir |-> d, metadata |-> EmptyDict]

\* ResultCache(cache_dir): __init__ and _load_metadata on the session directory.
OpenSessionCache(d) ==
  [cache_dir |-> d,
   metadata |-> IF d \in DOMAIN dirs /\ ~IsNone(dirs[d].index)
                THEN Val(dirs[d].index) ELSE EmptyDict]

\* cache_dir.mkdir(parents=True, exist_ok=True)
EmptyDir == [files |-> {}, index |-> None]

\* get_or_create_session(session_id, context); fresh is what uuid4 gives.
GetOrCreateSession(session_id, context, fresh) ==
  LET final == FinalSessionId(session_id, context, fresh)
      reg == manager.registry
  IN /\ IF IsNone(final)
        THEN \* None is not in the registry; line 68: base_cache_dir / None
             /\ resolved' = [session_id |-> session_id, context |-> context,
                             outcome |-> "raised", exc |-> "TypeError",
                             id |-> None, live |-> TRUE]
             /\ UNCHANGED <<registry_file, manager, dirs>>
        ELSE LET id == Val(final)
                 reg2 == IF id \notin DOMAIN reg THEN NewSession(reg, id)
                         ELSE TouchSession(reg, id)
                 d == reg2[id].cache_dir
                 known == id \in DOMAIN manager.caches
             IN /\ registry_file' = SaveRegistry(reg2)
                /\ manager' = [registry |-> reg2,
                               caches |-> IF known THEN manager.caches
                                          ELSE DictSet(manager.caches, id,
                                                       OpenSessionCache(d))]
                /\ dirs' = IF known \/ d \in DOMAIN dirs THEN dirs
                           ELSE DictSet(dirs, d, EmptyDir)
                /\ resolved' = [session_id |-> session_id, context |-> context,
                                outcome |-> "returned", exc |-> "none",
                                id |-> final, live |-> TRUE]
     /\ UNCHANGED saved

\* save_result(result_id, df) on the cache that the last call returned.
SessionSave(result_id, df) ==
  /\ resolved.outcome = "returned"
  /\ resolved.live
  /\ LET id == Val(resolved.id)
         cache == manager.caches[id]
         d == cache.cache_dir
         path == FilePath(result_id, "csv")
         entry == Entry(result_id, df, "csv", SizeBytes(df), now)
         metadata2 == DictSet(cache.metadata, result_id, entry)
     IN /\ dirs' = [dirs EXCEPT ![d] = [files |-> @.files \cup {path},
                                        index |-> Some(metadata2)]]
        /\ manager' = [manager EXCEPT !.caches[id].metadata = metadata2]
        /\ saved' = Some([session_id |-> id, cache_dir |-> d, result_id |-> result_id,
                          entry |-> entry, restarted |-> FALSE])
  /\ UNCHANGED <<registry_file, resolved>>

\* The process ends and is started again: a new SessionManager on the directory.
Restart ==
  /\ manager' = NewManager
  /\ resolved' = [resolved EXCEPT !.live = FALSE]
  /\ saved' = IF IsNone(saved) THEN None ELSE Some([Val(saved) EXCEPT !.restarted = TRUE])
  /\ UNCHANGED <<registry_file, dirs>>

(***************************************************************************)
(* The limits of the generic tools: one call of brapi_get or brapi_search  *)
(* with any max_results, against a server that pages as it likes.          *)
(***************************************************************************)
LimitTotalPages == 7   \* a totalPages above what one call may request

\* max_results as callers pass it: negative, small, the default, above the cap.
LimitMaxResults == {-1, 1, 100, 600}

\* Answers to the request for page p: a page of the server's own size (it may be
\* smaller than pageSize, or empty), a totalCount, currentPage counted from 0 or
\* from 1, and a totalPages.
LimitBodies(p) ==
  {[hasResult |-> TRUE, result |-> JDataDict(PageRows(p, n)), totalCount |-> Some(tc),
    currentPage |-> Some(cp), totalPages |-> Some(tp)] :
     n \in {0, MaxPageRows}, tc \in {MaxTotalCount, MaxTotalPages * MaxPageRows},
     cp \in {p, p + 1}, tp \in {MaxTotalPages, LimitTotalPages}}

LimitExchanges(p) ==
  {[status |-> "ok", body |-> b] : b \in LimitBodies(p)}
    \cup {[status |-> "http_error", body |-> NoResultBody]}

\* The page requests of the engine while the tool waits for it.
LimitPage ==
  /\ tool.pc = "fetching"
  /\ FetchStep(LimitExchanges(page), {})
  /\ UNCHANGED <<toolVars, cacheVars>>

\* Lines 154-160 of brapi_get and 265-272 of brapi_search: the summary of a
\* response that has a result_id (total_matches is the total_count of a search).
Summary ==
  LET capped == Min(tool.max_results, 500)
      df == DfHead(DataFrame(Val(ret).data), capped)
  IN [total_count |-> Val(ret).meta.totalCount,
      returned_count |-> Len(df.rows),
      truncated |-> Val(ret).meta.totalCount > capped]

\* The rows of the file the response points to.
SavedRows == files[FilePath(Val(tool.answer.result_id), "csv")].df.rows

(***************************************************************************)
(* CapabilityBuilder.from_server: the calls a server reports, matched      *)
(* against the local table of known paths.                                 *)
(***************************************************************************)
MaxCalls == 3          \* most calls in one serverinfo answer

\* The local table (data/metadata.csv, read at line 14): known path -> the
\* category, description and dictionary_loc of its row.
MetadataTable ==
  [studies |-> [category |-> "Core", description |-> "d1", dictionary_loc |-> "s1"],
   locations |-> [category |-> "Core", description |-> "d2", dictionary_loc |-> "s2"],
   germplasm |-> [category |-> "Germplasm", description |-> "d3",
                  dictionary_loc |-> "s3"]]

\* str.lower() on the categories of the table.
Lower(category) ==
  CASE category = "Core" -> "core"
    [] category = "Germplasm" -> "germplasm"
    [] OTHER -> category

\* One entry of result.calls: 'service' may be missing, empty, a path of the
\* table or another path; 'methods' may be missing.
ServerCalls ==
  {[service |-> sv, methods |-> Some({"GET"})] :
     sv \in {None, Some(""), Some("studies"), Some("locations"), Some("germplasm"),
             Some("unknown")}}
    \cup {[service |-> Some("studies"), methods |-> ms] :
            ms \in {None, Some({"GET", "POST"})}}

\* What client.fetch_serverinfo returns: {} after a failure, a body without
\* 'calls', with 'calls': null, or with a list of calls.
ServerInfos ==
  {[hasResult |-> FALSE, calls |-> None], [hasResult |-> TRUE, calls |-> None]}
    \cup {[hasResult |-> TRUE, calls |-> Some(cs)] :
            cs \in UNION {[1..n -> ServerCalls] : n \in 0..MaxCalls}}

VARIABLES
  builder,        \* from_server: its position, the calls, the local modules dict
  caps            \* the ServerCapabilities object it fills

capVars == <<builder, caps>>

\* ServerCapabilities(server_name=server_name), line 16.
NewCapabilities == [endpoints |-> EmptyDict, modules |-> EmptyDict]

CapInit ==
  /\ builder = [pc |-> "idle", calls |-> <<>>, next |-> 1, modules |-> EmptyDict]
  /\ caps = NewCapabilities

\* Lines 10-20: the calls of the answer ('calls' or [] when it is missing or
\* null), the table, an empty capabilities object.
FromServerCall(serverinfo) ==
  /\ builder.pc = "idle"
  /\ builder' = [pc |-> "loop",
                 calls |-> IF IsNone(serverinfo.calls) THEN <<>>
                           ELSE Val(serverinfo.calls),
                 next |-> 1, modules |-> EmptyDict]
  /\ caps' = NewCapabilities

\* Lines 46-53: the EndpointCapability of a matched call.
Endpoint(path, call, module) ==
  [path |-> path,
   methods |-> IF IsNone(call.methods) THEN {} ELSE Val(call.methods),
   module |-> module,
   description |-> MetadataTable[path].description,
   input_schema |-> MetadataTable[path].dictionary_loc]

\* Lines 43-44: the module is created when it is first seen.
EnsureModule(modules, module) ==
  IF module \in DOMAIN modules THEN modules
  ELSE DictSet(modules, module, [name |-> module, endpoints |-> EmptyDict])

\* A builder that files an endpoint under no module.
RegisterInNoModule(modules, module, path, ep) == modules

\* Lines 58-59: modules[module].endpoints[path] = ep.
RegisterInModule(modules, module, path, ep) ==
  [modules EXCEPT ![module].endpoints = DictSet(@, path, ep)]

\* Lines 22-59: one iteration of the loop over the calls.
FromServerStep ==
  /\ builder.pc = "loop"
  /\ builder.next <= Len(builder.calls)
  /\ LET call == builder.calls[builder.next]
         known == ~IsNone(call.service) /\ Val(call.service) # ""
                    /\ Val(call.service) \in DOMAIN MetadataTable
     IN IF ~known
        THEN \* no path, or no row of the table: continue
             /\ builder' = [builder EXCEPT !.next = @ + 1]
             /\ caps' = caps
        ELSE LET path == Val(call.service)
                 module == Lower(MetadataTable[path].category)
                 ep == Endpoint(path, call, module)
             IN /\ caps' = [caps EXCEPT !.endpoints = DictSet(@, path, ep)]
                /\ builder' = [builder EXCEPT
                                 !.next = @ + 1,
                                 !.modules = RegisterInModule(
                                               EnsureModule(@, module), module, path, ep)]

\* Lines 61-63: caps.modules = modules; return caps.
FromServerReturn ==
  /\ builder.pc = "loop"
  /\ builder.next > Len(builder.calls)
  /\ builder' = [builder EXCEPT !.pc = "returned"]
  /\ caps' = [caps EXCEPT !.modules = builder.modules]

(***************************************************************************)
(* The params argument of a call of fetch_paginated or _fetch_all_pages as *)
(* the caller wrote it, next to the requests the call sends.               *)
(***************************************************************************)
VARIABLE given

callVars == <<given>>

NoGiven == [called |-> FALSE, params |-> None]

CallInit == given = NoGiven

\* fetch_paginated(client, endpoint, params=p, ...) written by a caller.
FetchCallGiven(p) == FetchCallWith(p) /\ given' = [called |-> TRUE, params |-> p]

\* BrAPIClient._fetch_all_pages(endpoint, params=p, ...) written by a caller.
LegacyCallGiven(p) == LegacyCallWith(p) /\ given' = [called |-> TRUE, params |-> p]

(***************************************************************************)
(* What the server reported to one call of fetch_paginated, next to the    *)
(* summary the call returns.                                               *)
(*   last   <<>> while no page delivered records, else <<t>> with t the    *)
(*          totalCount (<<>> if absent) of the last page that did          *)
(*   ever   some answer carried a totalCount                               *)
(***************************************************************************)
VARIABLE reported

obsVars == <<reported>>

NoReport == [last |-> None, ever |-> FALSE]

ObsInit == reported = NoReport

\* The answer has records: a non-empty list under 'result'.
Delivers(body) ==
  /\ body.hasResult
  /\ _extract_data(body.result).kind = "list"
  /\ Len(_extract_data(body.result).data) > 0

Observe(body) ==
  [last |-> IF Delivers(body) THEN Some(body.totalCount) ELSE reported.last,
   ever |-> reported.ever \/ ~IsNone(body.totalCount)]

\* One step of the loop of fetch_paginated in which the server answers x, and y
\* when the GET is repeated after a re-authentication.
ObservedPage ==
  \E x \in Exchanges(page) :
    \E y \in IF x.status = "token_error" THEN RetryExchanges(page) ELSE {x} :
      /\ FetchStep({x}, {y})
      /\ reported' =
           IF Len(reqs') = Len(reqs) \/ reqs'[Len(reqs')].raised THEN reported
           ELSE IF reqs'[Len(reqs')].sent = 1 THEN Observe(x.body)
           ELSE Observe(y.body)

(***************************************************************************)
(* The process as main.py starts it: the HTTP server with its own          *)
(* BrapiMcpServer, which serves /mcp and /download, and in stdio mode a    *)
(* second BrapiMcpServer for the stdio connection.  Each BrapiMcpServer    *)
(* has its own SessionManager on the same sessions directory.  manager is  *)
(* the SessionManager of the instance that serves the calls now.           *)
(***************************************************************************)
VARIABLES
  peer,           \* the SessionManager of the other instance, None in HTTP mode
  serving,        \* which instance manager belongs to: "http" or "stdio"
  links,          \* the (session_id, result_id) of the download URLs handed out
  download        \* the last GET /download/{session_id}/{result_id} and its answer

httpVars == <<peer, serving, links, download>>

NoDownload == [session_id |-> None, result_id |-> None, status |-> "none"]

HttpInit ==
  /\ peer = None
  /\ serving = "http"
  /\ links = {}
  /\ download = NoDownload

\* main.py line 65: BrapiMcpServer(config) for the stdio connection, after the
\* HTTP server has started; its SessionManager loads sessions.json.
StartStdio ==
  /\ IsNone(peer)
  /\ peer' = Some(NewManager)
  /\ UNCHANGED <<serving, links, download, sessionVars>>

\* The next call arrives at the other instance.  The cache object handed out by
\* the last get_or_create_session belongs to the instance left behind.
OtherInstance ==
  /\ ~IsNone(peer)
  /\ manager' = Val(peer)
  /\ peer' = Some(manager)
  /\ serving' = IF serving = "http" THEN "stdio" ELSE "http"
  /\ resolved' = [resolved EXCEPT !.live = FALSE]
  /\ UNCHANGED <<registry_file, dirs, saved, links, download>>

\* The process ends and is started again in the same mode.
RestartProcess ==
  /\ Restart
  /\ peer' = IF IsNone(peer) THEN None ELSE Some(NewManager)
  /\ serving' = "http"
  /\ UNCHANGED <<links, download>>

\* get_download_instructions and quick_download_link (lines 147-221): the
\* session is resolved, the result looked up in its cache, the URL built.
DownloadLink(session_id, context, fresh, result_id) ==
  /\ GetOrCreateSession(session_id, context, fresh)
  /\ links' = IF /\ resolved'.outcome = "returned"
                 /\ result_id \in DOMAIN manager'.caches[Val(resolved'.id)].metadata
              THEN links \cup {<<Val(resolved'.id), result_id>>}
              ELSE links
  /\ UNCHANGED <<peer, serving, download>>

\* A download that looks the session up in the registry and opens its cache.
DownloadStatusFromRegistry(session_id, result_id) ==
  LET reg == LoadRegistry
  IN IF session_id \notin DOMAIN reg THEN "no_session"
     ELSE LET cache == OpenSessionCache(reg[session_id].cache_dir)
          IN IF result_id \notin DOMAIN cache.metadata THEN "no_result"
             ELSE IF cache.metadata[result_id].file_path
                       \notin dirs[cache.cache_dir].files
             THEN "no_file"
             ELSE "file"

\* download_result (http_server.py lines 33-57): the answer of the route.
DownloadStatus(session_id, result_id) ==
  LET caches == manager.caches
  IN IF session_id \notin DOMAIN caches THEN "no_session"
     ELSE LET cache == caches[session_id]
          IN IF result_id \notin DOMAIN cache.metadata THEN "no_result"
             ELSE IF cache.metadata[result_id].file_path
                       \notin dirs[cache.cache_dir].files
             THEN "no_file"
             ELSE "file"

\* GET /download/{session_id}/{result_id}, served by the HTTP instance.
DownloadResult(session_id, result_id) ==
  /\ serving = "http"
  /\ download' = [session_id |-> Some(session_id), result_id |-> Some(result_id),
                  status |-> DownloadStatus(session_id, result_id)]
  /\ UNCHANGED <<peer, serving, links, sessionVars>>

vars == <<engineVars, extractVars, cacheVars, toolVars, loadVars, sessionVars, callVars,
          capVars, obsVars, httpVars>>

Init ==
  /\ EngineIdle /\ ExtractIdle /\ CacheInit /\ ToolInit /\ LoadInit /\ SessionInit
  /\ CallInit /\ CapInit /\ HttpInit /\ ObsInit

Next ==
  \/ FetchCall /\ UNCHANGED <<httpVars, obsVars, capVars, callVars, extractVars, cacheVars, toolVars, loadVars, sessionVars>>
  \/ FetchPage /\ UNCHANGED <<httpVars, obsVars, capVars, callVars, extractVars, cacheVars, toolVars, loadVars, sessionVars>>
  \/ SearchCall /\ UNCHANGED <<httpVars, obsVars, capVars, callVars, extractVars, cacheVars, toolVars, loadVars, sessionVars>>
  \/ Reset /\ UNCHANGED <<httpVars, obsVars, capVars, callVars, extractVars, cacheVars, toolVars, loadVars, sessionVars>>

Spec == Init /\ [][Next]_vars

NextLegacy ==
  \/ LegacyCall /\ UNCHANGED <<httpVars, obsVars, capVars, callVars, extractVars, cacheVars, toolVars, loadVars, sessionVars>>
  \/ LegacyPage /\ UNCHANGED <<httpVars, obsVars, capVars, callVars, extractVars, cacheVars, toolVars, loadVars, sessionVars>>
  \/ Reset /\ UNCHANGED <<httpVars, obsVars, capVars, callVars, extractVars, cacheVars, toolVars, loadVars, sessionVars>>

SpecLegacy == Init /\ [][NextLegacy]_vars

InitExtract ==
  /\ EngineIdle /\ ExtractInit /\ CacheInit /\ ToolInit /\ LoadInit /\ SessionInit
  /\ CallInit /\ CapInit /\ HttpInit /\ ObsInit

NextExtract == ExtractCall /\ UNCHANGED <<httpVars, obsVars, capVars, callVars, engineVars, cacheVars, toolVars, loadVars, sessionVars>>

SpecExtract == InitExtract /\ [][NextExtract]_vars

\* One process at a time on the directory, one call at a time, with crashes,
\* restarts (cleanup, then the cache is opened again) and time passing.
NextCache ==
  \/ Open("i1") /\ UNCHANGED <<httpVars, obsVars, capVars, callVars, engineVars, extractVars, toolVars, loadVars, sessionVars>>
  \/ /\ \E id \in ResultIds, df \in Frames, f \in Formats : SaveCall("t1", "i1", id, df, f)
     /\ UNCHANGED <<httpVars, obsVars, capVars, callVars, engineVars, extractVars, toolVars, loadVars, sessionVars>>
  \/ SaveFile("t1") /\ UNCHANGED <<httpVars, obsVars, capVars, callVars, engineVars, extractVars, toolVars, loadVars, sessionVars>>
  \/ SaveEntry("t1") /\ UNCHANGED <<httpVars, obsVars, capVars, callVars, engineVars, extractVars, toolVars, loadVars, sessionVars>>
  \/ SaveDump("t1") /\ UNCHANGED <<httpVars, obsVars, capVars, callVars, engineVars, extractVars, toolVars, loadVars, sessionVars>>
  \/ /\ \E id \in ResultIds : DeleteCall("t1", "i1", id)
     /\ UNCHANGED <<httpVars, obsVars, capVars, callVars, engineVars, extractVars, toolVars, loadVars, sessionVars>>
  \/ DeleteFile("t1") /\ UNCHANGED <<httpVars, obsVars, capVars, callVars, engineVars, extractVars, toolVars, loadVars, sessionVars>>
  \/ DeleteDump("t1") /\ UNCHANGED <<httpVars, obsVars, capVars, callVars, engineVars, extractVars, toolVars, loadVars, sessionVars>>
  \/ Crash /\ UNCHANGED <<httpVars, obsVars, capVars, callVars, engineVars, extractVars, toolVars, loadVars, sessionVars>>
  \/ Cleanup /\ UNCHANGED <<httpVars, obsVars, capVars, callVars, engineVars, extractVars, toolVars, loadVars, sessionVars>>
  \/ Tick /\ UNCHANGED <<httpVars, obsVars, capVars, callVars, engineVars, extractVars, toolVars, loadVars, sessionVars>>

SpecCache == Init /\ [][NextCache]_vars

\* Two save_result calls, one per thread, through one instance or through two.
NextRace ==
  \/ /\ \E i \in Instances : Open(i)
     /\ UNCHANGED <<httpVars, obsVars, capVars, callVars, engineVars, extractVars, toolVars, loadVars, sessionVars>>
  \/ /\ \E t \in Threads, i \in Instances, id \in ResultIds, df \in Frames, f \in Formats :
          th[t].calls = 0 /\ SaveCall(t, i, id, df, f)
     /\ UNCHANGED <<httpVars, obsVars, capVars, callVars, engineVars, extractVars, toolVars, loadVars, sessionVars>>
  \/ (\E t \in Threads : SaveFile(t)) /\ UNCHANGED <<httpVars, obsVars, capVars, callVars, engineVars, extractVars, toolVars, loadVars, sessionVars>>
  \/ (\E t \in Threads : SaveEntry(t)) /\ UNCHANGED <<httpVars, obsVars, capVars, callVars, engineVars, extractVars, toolVars, loadVars, sessionVars>>
  \/ (\E t \in Threads : SaveDump(t)) /\ UNCHANGED <<httpVars, obsVars, capVars, callVars, engineVars, extractVars, toolVars, loadVars, sessionVars>>

SpecRace == Init /\ [][NextRace]_vars

\* A client calls the generic tools, one call after the other, in one session.
NextTools ==
  \/ Open(SessionCache) /\ UNCHANGED <<httpVars, obsVars, capVars, callVars, engineVars, extractVars, toolVars, loadVars, sessionVars>>
  \/ /\ \E service \in ToolServices, db_id \in ToolDbIds, sub \in ToolSubs,
          p \in CallerParams, max_results \in ToolMaxResults :
          BrapiGetCall(service, db_id, sub, p, max_results)
     /\ UNCHANGED <<httpVars, obsVars, capVars, callVars, extractVars, loadVars, sessionVars>>
  \/ BrapiGetReturn /\ UNCHANGED <<httpVars, obsVars, capVars, callVars, extractVars, loadVars, sessionVars>>
  \/ /\ \E service \in ToolServices, sp \in SearchParams,
          max_results \in ToolMaxResults, x \in ToolSubmitExchanges :
          BrapiSearchCall(service, sp, max_results, x)
     /\ UNCHANGED <<httpVars, obsVars, capVars, callVars, extractVars, loadVars, sessionVars>>
  \/ BrapiSearchReturn /\ UNCHANGED <<httpVars, obsVars, capVars, callVars, extractVars, loadVars, sessionVars>>
  \/ ToolPage /\ UNCHANGED <<httpVars, obsVars, capVars, callVars, extractVars, loadVars, sessionVars>>
  \/ ToolAnswered /\ UNCHANGED <<httpVars, obsVars, capVars, callVars, extractVars, loadVars, sessionVars>>

SpecTools == Init /\ [][NextTools]_vars

\* One session's cache used by one caller: saves in every format, deletes, loads
\* through the three paths, and the process dying and starting again.  The answer
\* of a load is with the caller until the next call.
NextLoad ==
  \/ Open("i1") /\ loaded' = NoLoad /\ UNCHANGED <<httpVars, obsVars, capVars, callVars, engineVars, extractVars, toolVars, sessionVars>>
  \/ /\ \E id \in LoadIds, df \in LoadFrames, f \in LoadFormats :
          SaveCall("t1", "i1", id, df, f)
     /\ loaded' = NoLoad /\ UNCHANGED <<httpVars, obsVars, capVars, callVars, engineVars, extractVars, toolVars, sessionVars>>
  \/ SaveFile("t1") /\ loaded' = NoLoad /\ UNCHANGED <<httpVars, obsVars, capVars, callVars, engineVars, extractVars, toolVars, sessionVars>>
  \/ SaveEntry("t1") /\ loaded' = NoLoad /\ UNCHANGED <<httpVars, obsVars, capVars, callVars, engineVars, extractVars, toolVars, sessionVars>>
  \/ SaveDump("t1") /\ loaded' = NoLoad /\ UNCHANGED <<httpVars, obsVars, capVars, callVars, engineVars, extractVars, toolVars, sessionVars>>
  \/ /\ \E id \in LoadIds : DeleteCall("t1", "i1", id)
     /\ loaded' = NoLoad /\ UNCHANGED <<httpVars, obsVars, capVars, callVars, engineVars, extractVars, toolVars, sessionVars>>
  \/ DeleteFile("t1") /\ loaded' = NoLoad /\ UNCHANGED <<httpVars, obsVars, capVars, callVars, engineVars, extractVars, toolVars, sessionVars>>
  \/ DeleteDump("t1") /\ loaded' = NoLoad /\ UNCHANGED <<httpVars, obsVars, capVars, callVars, engineVars, extractVars, toolVars, sessionVars>>
  \/ Crash /\ loaded' = NoLoad /\ UNCHANGED <<httpVars, obsVars, capVars, callVars, engineVars, extractVars, toolVars, sessionVars>>
  \/ /\ \E id \in LoadIds, limit \in Limits, columns \in ColumnFilters :
          LoadCall("t1", "i1", "cache", id, limit, columns, 0)
     /\ UNCHANGED <<httpVars, obsVars, capVars, callVars, engineVars, extractVars, toolVars, sessionVars>>
  \/ /\ \E id \in LoadIds, limit \in Limits, columns \in ColumnFilters,
          offset \in Offsets :
          LoadCall("t1", "i1", "tool", id, limit, columns, offset)
     /\ UNCHANGED <<httpVars, obsVars, capVars, callVars, engineVars, extractVars, toolVars, sessionVars>>
  \/ /\ \E id \in LoadIds : LoadCall("t1", "i1", "resource", id, None, None, 0)
     /\ UNCHANGED <<httpVars, obsVars, capVars, callVars, engineVars, extractVars, toolVars, sessionVars>>

SpecLoad == Init /\ [][NextLoad]_vars

\* One process at a time with one SessionManager: sessions are resolved, results
\* saved through the cache returned last, the process restarts, time passes.
NextSession ==
  \/ /\ \E session_id \in ExplicitIds, context \in Contexts, fresh \in GeneratedIds :
          GetOrCreateSession(session_id, context, fresh)
     /\ UNCHANGED <<httpVars, obsVars, capVars, callVars, engineVars, extractVars, cacheVars, toolVars, loadVars>>
  \/ /\ \E result_id \in LoadIds, df \in SessionFrames : SessionSave(result_id, df)
     /\ UNCHANGED <<httpVars, obsVars, capVars, callVars, engineVars, extractVars, cacheVars, toolVars, loadVars>>
  \/ Restart /\ UNCHANGED <<httpVars, obsVars, capVars, callVars, engineVars, extractVars, cacheVars, toolVars, loadVars>>
  \/ /\ now < SessionClock /\ Tick
     /\ UNCHANGED <<httpVars, obsVars, capVars, callVars, engineVars, extractVars, toolVars, loadVars, sessionVars>>

SpecSession == Init /\ [][NextSession]_vars
\* The Context of a connected client, whose session_id is 'c'.
ClientContexts == {Some([has_session_id |-> TRUE, session_id |-> Some(<<"c">>)])}

\* Sessions, saves, download links and downloads in a process of either mode,
\* which may end and start again.  Every call comes from a connected client,
\* with or without an explicit session_id.
NextInstances ==
  \/ /\ \E session_id \in ExplicitIds, context \in ClientContexts, fresh \in GeneratedIds :
          GetOrCreateSession(session_id, context, fresh)
     /\ UNCHANGED <<httpVars, obsVars, capVars, callVars, engineVars, extractVars, cacheVars, toolVars, loadVars>>
  \/ /\ \E result_id \in LoadIds, df \in SessionFrames : SessionSave(result_id, df)
     /\ UNCHANGED <<httpVars, obsVars, capVars, callVars, engineVars, extractVars, cacheVars, toolVars, loadVars>>
  \/ StartStdio /\ UNCHANGED <<obsVars, capVars, callVars, engineVars, extractVars, cacheVars, toolVars, loadVars>>
  \/ OtherInstance /\ UNCHANGED <<obsVars, capVars, callVars, engineVars, extractVars, cacheVars, toolVars, loadVars>>
  \/ RestartProcess /\ UNCHANGED <<obsVars, capVars, callVars, engineVars, extractVars, cacheVars, toolVars, loadVars>>
  \/ /\ \E session_id \in ExplicitIds, context \in ClientContexts,
          fresh \in GeneratedIds, result_id \in LoadIds :
          DownloadLink(session_id, context, fresh, result_id)
     /\ UNCHANGED <<obsVars, capVars, callVars, engineVars, extractVars, cacheVars, toolVars, loadVars>>
  \/ /\ \E l \in links : DownloadResult(l[1], l[2])
     /\ UNCHANGED <<obsVars, capVars, callVars, engineVars, extractVars, cacheVars, toolVars, loadVars>>

SpecInstances == Init /\ [][NextInstances]_vars
\* session_id arguments that are paths: 'e' and 'e/'.
PathIds == {Some(<<"e">>), Some(<<"e", "/">>)}

\* One SessionManager called with the ids clients may pass, over restarts.
NextRegistry ==
  \/ /\ \E session_id \in ExplicitIds \cup PathIds, context \in {None} \cup ClientContexts,
          fresh \in GeneratedIds :
          GetOrCreateSession(session_id, context, fresh)
     /\ UNCHANGED <<httpVars, obsVars, capVars, callVars, engineVars, extractVars, cacheVars, toolVars, loadVars>>
  \/ /\ \E result_id \in LoadIds, df \in SessionFrames : SessionSave(result_id, df)
     /\ UNCHANGED <<httpVars, obsVars, capVars, callVars, engineVars, extractVars, cacheVars, toolVars, loadVars>>
  \/ Restart /\ UNCHANGED <<httpVars, obsVars, capVars, callVars, engineVars, extractVars, cacheVars, toolVars, loadVars>>
  \/ /\ now < SessionClock /\ Tick
     /\ UNCHANGED <<httpVars, obsVars, capVars, callVars, engineVars, extractVars, toolVars, loadVars, sessionVars>>

SpecRegistry == Init /\ [][NextRegistry]_vars



\* Callers of both paging loops, the current one and the legacy one, with the
\* params argument of each call on record.
NextParams ==
  \/ /\ \E p \in CallerParams : FetchCallGiven(p)
     /\ UNCHANGED <<httpVars, obsVars, capVars, extractVars, cacheVars, toolVars, loadVars, sessionVars>>
  \/ FetchPage /\ UNCHANGED <<httpVars, obsVars, capVars, callVars, extractVars, cacheVars, toolVars, loadVars, sessionVars>>
  \/ /\ \E p \in CallerParams : LegacyCallGiven(p)
     /\ UNCHANGED <<httpVars, obsVars, capVars, extractVars, cacheVars, toolVars, loadVars, sessionVars>>
  \/ LegacyPage /\ UNCHANGED <<httpVars, obsVars, capVars, callVars, extractVars, cacheVars, toolVars, loadVars, sessionVars>>
  \/ Reset /\ given' = NoGiven
     /\ UNCHANGED <<httpVars, obsVars, capVars, extractVars, cacheVars, toolVars, loadVars, sessionVars>>

SpecParams == Init /\ [][NextParams]_vars

\* One call of a generic tool in a session whose cache is open.
NextLimits ==
  \/ Open(SessionCache)
     /\ UNCHANGED <<httpVars, obsVars, capVars, callVars, engineVars, extractVars, toolVars, loadVars, sessionVars>>
  \/ /\ \E max_results \in LimitMaxResults :
          BrapiGetCall(<<"a", "b">>, None, None, None, max_results)
     /\ UNCHANGED <<httpVars, obsVars, capVars, callVars, extractVars, loadVars, sessionVars>>
  \/ BrapiGetReturn /\ UNCHANGED <<httpVars, obsVars, capVars, callVars, extractVars, loadVars, sessionVars>>
  \/ /\ \E sp \in SearchParams, max_results \in LimitMaxResults,
          x \in ToolSubmitExchanges :
          BrapiSearchCall(<<"a", "b">>, sp, max_results, x)
     /\ UNCHANGED <<httpVars, obsVars, capVars, callVars, extractVars, loadVars, sessionVars>>
  \/ BrapiSearchReturn /\ UNCHANGED <<httpVars, obsVars, capVars, callVars, extractVars, loadVars, sessionVars>>
  \/ LimitPage /\ UNCHANGED <<httpVars, obsVars, capVars, callVars, extractVars, loadVars, sessionVars>>

SpecLimits == Init /\ [][NextLimits]_vars

\* The server starts: from_server runs once on the answer of fetch_serverinfo.
NextCapabilities ==
  \/ /\ \E serverinfo \in ServerInfos : FromServerCall(serverinfo)
     /\ UNCHANGED <<httpVars, obsVars, callVars, engineVars, extractVars, cacheVars, toolVars, loadVars,
                    sessionVars>>
  \/ /\ FromServerStep
     /\ UNCHANGED <<httpVars, obsVars, callVars, engineVars, extractVars, cacheVars, toolVars, loadVars,
                    sessionVars>>
  \/ /\ FromServerReturn
     /\ UNCHANGED <<httpVars, obsVars, callVars, engineVars, extractVars, cacheVars, toolVars, loadVars,
                    sessionVars>>

SpecCapabilities == Init /\ [][NextCapabilities]_vars

\* Calls of fetch_paginated with what the server reported on record.
NextSummary ==
  \/ /\ FetchCall /\ reported' = NoReport
     /\ UNCHANGED <<httpVars, capVars, callVars, extractVars, cacheVars, toolVars, loadVars,
                    sessionVars>>
  \/ /\ ObservedPage
     /\ UNCHANGED <<httpVars, capVars, callVars, extractVars, cacheVars, toolVars, loadVars,
                    sessionVars>>
  \/ /\ Reset /\ reported' = NoReport
     /\ UNCHANGED <<httpVars, capVars, callVars, extractVars, cacheVars, toolVars, loadVars,
                    sessionVars>>

SpecSummary == Init /\ [][NextSummary]_vars

\* One caller saves and deletes results on one cache directory, in every format;
\* each call runs to its end before the next one starts and the process lives on.
NextFiles ==
  \/ /\ Open("i1")
     /\ UNCHANGED <<httpVars, obsVars, capVars, callVars, engineVars, extractVars, toolVars,
                    loadVars, sessionVars>>
  \/ /\ \E id \in ResultIds, df \in Frames, f \in LoadFormats :
          SaveCall("t1", "i1", id, df, f)
     /\ UNCHANGED <<httpVars, obsVars, capVars, callVars, engineVars, extractVars, toolVars,
                    loadVars, sessionVars>>
  \/ /\ SaveFile("t1")
     /\ UNCHANGED <<httpVars, obsVars, capVars, callVars, engineVars, extractVars, toolVars,
                    loadVars, sessionVars>>
  \/ /\ SaveEntry("t1")
     /\ UNCHANGED <<httpVars, obsVars, capVars, callVars, engineVars, extractVars, toolVars,
                    loadVars, sessionVars>>
  \/ /\ SaveDump("t1")
     /\ UNCHANGED <<httpVars, obsVars, capVars, callVars, engineVars, extractVars, toolVars,
                    loadVars, sessionVars>>
  \/ /\ \E id \in ResultIds : DeleteCall("t1", "i1", id)
     /\ UNCHANGED <<httpVars, obsVars, capVars, callVars, engineVars, extractVars, toolVars,
                    loadVars, sessionVars>>
  \/ /\ DeleteFile("t1")
     /\ UNCHANGED <<httpVars, obsVars, capVars, callVars, engineVars, extractVars, toolVars,
                    loadVars, sessionVars>>
  \/ /\ DeleteDump("t1")
     /\ UNCHANGED <<httpVars, obsVars, capVars, callVars, engineVars, extractVars, toolVars,
                    loadVars, sessionVars>>

SpecFiles == Init /\ [][NextFiles]_vars



(***************************************************************************)
(* Claims about the fetch engine (specification Spec).                     *)
(***************************************************************************)
MinOpt(n, o) == IF IsNone(o) THEN n ELSE Min(n, Val(o))

FetchDone == op \in {"fetch", "search"} /\ pc = "done" /\ Len(reqs) > 0
             /\ reqs[Len(reqs)].method = "GET"

\* C1: when every page is non-empty and the server reports currentPage equal to
\* the requested page (and one totalPages throughout), fetch_paginated issues
\* exactly min(totalPages, max_pages) page requests.
C1_PageCountIsMin ==
  (FetchDone /\ outcome = "returned" /\ srv.regular /\ ~IsNone(srv.totalPages))
    => NumGets = MinOpt(Val(srv.totalPages), max_pages)

\* The scaled fixture of the test: totalPages above max_pages, max_pages requests.
C1_Witness ==
  /\ FetchDone /\ op = "fetch" /\ outcome = "returned" /\ srv.regular
  /\ MaxPagesArg < MaxTotalPages
  /\ srv.totalPages = Some(MaxTotalPages)
  /\ max_pages = Some(MaxPagesArg)
  /\ NumGets = MaxPagesArg

LastGetRaised == FetchDone /\ reqs[Len(reqs)].raised

NoHandleNoData ==
  /\ ~IsNone(search_response)
  /\ Val(search_response).status = "ok"
  /\ SubmitResult(Val(search_response).body) = JDict(0)

\* C3: a submission answer with neither a handle nor inline data makes
\* search_paginated signal an error; it never returns a successful outcome.
C3_NoHandleNoDataIsError ==
  (op = "search" /\ pc = "done" /\ NoHandleNoData) => outcome = "raised"

(***************************************************************************)
(* Claims about _extract_data (SpecExtract) and the legacy client           *)
(* (SpecLegacy).                                                           *)
(***************************************************************************)
\* The normalization as the claim states it.
ClaimedExtract(r) ==
  IF r.kind = "dict" /\ r.hasData /\ r.dataKind = "list" THEN JList(r.data)
  ELSE IF r.kind = "list" THEN r
  ELSE IF r.kind = "dict" THEN JList(<<r>>)
  ELSE JList(<<>>)

\* C9: _extract_data maps an object containing a 'data' list to that list, a bare
\* list to itself, any other object to a one-element list holding it and every
\* other value to the empty list.
C9_ExtractNormalizes ==
  ~IsNone(extracted) => Val(extracted) = ClaimedExtract(result_obj)

\* The single-page answer the legacy loop received first.
LegacySinglePage ==
  /\ op = "legacy" /\ pc = "done" /\ Len(reqs) = 1
  /\ ~IsNone(response) /\ Val(response).hasResult
  /\ Val(response).totalPages = Some(1)
  /\ Val(response).result.kind \in {"dict", "list"}
  /\ Val(response).result.hasData => Val(response).result.dataKind = "list"

\* C10: for a single-page answer (totalPages = 1) _fetch_all_pages returns the
\* flat list of records of the result, whatever its shape.
C10_LegacySinglePageFlat ==
  LegacySinglePage
    => /\ outcome = "returned"
       /\ Val(ret).data = ClaimedExtract(Val(response).result).data

(***************************************************************************)
(* Claims about the result cache (SpecCache, SpecRace).                    *)
(***************************************************************************)
DiskEntries == IF IsNone(index_file) THEN EmptyDict ELSE Val(index_file).entries

\* C4: in every quiescent state reached by save_result and delete_result calls,
\* crashes followed by re-opening, and cleanup sweeps, every entry of
\* cache_metadata.json points at a data file that exists.
C4_IndexEntriesHaveFiles ==
  Quiescent => \A id \in DOMAIN DiskEntries : DiskEntries[id].file_path \in DOMAIN files

BothSaved == \A t \in Threads : th[t].pc = "idle" /\ th[t].calls = 1

Describes(e, df) ==
  /\ e.row_count = Len(df.rows)
  /\ e.columns = df.columns
  /\ e.size_bytes = SizeBytes(df)

\* C7: after two concurrent save_result calls for the same result_id have both
\* finished, the index entry's row_count, columns and size_bytes describe the
\* data file that is on disk under that id.
C7_SameIdLastWriterWins ==
  (BothSaved /\ th["t1"].result_id = th["t2"].result_id)
    => LET id == th["t1"].result_id
       IN /\ id \in DOMAIN DiskEntries
          /\ DiskEntries[id].file_path \in DOMAIN files
          /\ Describes(DiskEntries[id], files[DiskEntries[id].file_path].df)

\* C8: after two concurrent save_result calls for different result_ids (through
\* one instance or two) have both finished, the on-disk index holds both entries
\* and each entry points at its own data file.
C8_DifferentIdsIndependent ==
  (BothSaved /\ th["t1"].result_id # th["t2"].result_id)
    => \A t \in Threads :
         /\ th[t].result_id \in DOMAIN DiskEntries
         /\ DiskEntries[th[t].result_id].file_path
              = FilePath(th[t].result_id, th[t].format)
         /\ DiskEntries[th[t].result_id].file_path \in DOMAIN files

(***************************************************************************)
(* Claims about the generic tools (SpecTools).                             *)
(***************************************************************************)
SameQuery(c, d) ==
  /\ c.name = "brapi_get" /\ d.name = "brapi_get"
  /\ c.service = d.service /\ c.db_id = d.db_id /\ c.sub = d.sub /\ c.given = d.given

\* C5: two answered brapi_get calls with equal (service, db_id, sub, params), as
\* the caller supplied them, carry the same result_id, whatever max_results was
\* and however many pages were fetched, and leave one cache slot.
C5_ResultIdFromQueryOnly ==
  (/\ tool.pc = "done" /\ ~IsNone(prev)
   /\ SameQuery(tool, Val(prev))
   /\ tool.answer.kind = "result" /\ Val(prev).answer.kind = "result")
    => /\ tool.answer.result_id = Val(prev).answer.result_id
       /\ Cardinality(DOMAIN files) = 1

UnknownService ==
  \/ tool.name = "brapi_get" /\ tool.service \notin CapabilityEndpoints
  \/ tool.name = "brapi_search" /\ SearchEndpoint(tool.service) \notin CapabilityEndpoints

\* C6: a brapi_get or brapi_search call whose service is not the path of an
\* endpoint of the capabilities is answered with a capability error that lists
\* the available services, sends no HTTP request and saves nothing.
C6_UnknownServiceIsCapabilityError ==
  UnknownService
    => /\ tool.pc = "done"
       /\ tool.answer.kind = "capability_error"
       /\ tool.answer.available # {}
       /\ reqs = <<>>
       /\ ~tool.answer.saved

(***************************************************************************)
(* Claims about inline search answers (Spec).                              *)
(***************************************************************************)
\* The submission was answered without a handle and with inline records, as an
\* object with a 'data' list, a bare list or a singleton object.
InlineData ==
  /\ ~IsNone(search_response)
  /\ Val(search_response).status = "ok"
  /\ Val(search_response).body.hasResult
  /\ LET r == Val(search_response).body.result
     IN /\ IsNone(r.handle)
        /\ \/ r.kind = "dict" /\ r.hasData /\ r.dataKind = "list" /\ r.data # <<>>
           \/ r.kind = "list" /\ r.data # <<>>
           \/ r.kind = "dict" /\ ~r.hasData /\ r.ident # 0

\* C20: an answer to the search submission that has no handle but inline data, in
\* any of the three shapes, makes search_paginated return the normalized records
\* of that data without any GET request.
C20_InlineDataReturned ==
  (op = "search" /\ InlineData)
    => /\ pc = "done"
       /\ outcome = "returned"
       /\ Val(ret).data = ClaimedExtract(Val(search_response).body.result).data
       /\ NumGets = 0

(***************************************************************************)
(* Claims about saving, loading and deleting cached results (SpecLoad).    *)
(***************************************************************************)
\* The one caller and the one cache instance of SpecLoad.
Caller == th["t1"]
Index == Val(metadata["i1"])
FilesOf(fs, id) == {p \in DOMAIN fs : p[1] = id}

\* The step that ends a save_result of data whose earlier save under the same id
\* is in the index file.
SecondSaveReturns ==
  /\ Caller.pc = "save_dump"
  /\ th'["t1"].ret = Some("saved")
  /\ Caller.result_id \in DOMAIN DiskEntries
  /\ Describes(DiskEntries[Caller.result_id], Caller.df)

\* C11: after two save_result calls with the same result_id and the same data
\* the directory holds exactly one data file for that id, the index holds its
\* entry, and the entry's created_at is the second call's.
C11_SaveIdempotent ==
  [][SecondSaveReturns
       => /\ Cardinality(FilesOf(files', Caller.result_id)) = 1
          /\ Caller.result_id \in DOMAIN DiskEntries'
          /\ DiskEntries'[Caller.result_id].created_at = now']_vars

\* ResultCache.load_result was answered right after a finished save_result of
\* the same id.
LoadAfterSave ==
  /\ loaded.via = "cache"
  /\ Caller.pc = "idle"
  /\ Caller.ret = Some("saved")
  /\ Caller.result_id = loaded.result_id

\* C12: save_result followed by load_result of the same id without limit and
\* without column filter returns as many rows and columns as were saved, with
\* truncated = false; with a limit below the stored row count truncated = true.
C12_RoundTrip ==
  LoadAfterSave
    => /\ (IsNone(loaded.limit) /\ IsNone(loaded.columns))
            => /\ loaded.out.kind = "data"
               /\ Len(loaded.out.data) = Len(Caller.df.rows)
               /\ Len(loaded.out.meta.columns) = Len(Caller.df.columns)
               /\ ~loaded.out.meta.truncated
       /\ (~IsNone(loaded.limit) /\ Val(loaded.limit) < Len(Caller.df.rows))
            => /\ loaded.out.kind = "data"
               /\ loaded.out.meta.truncated

\* C13: a load (ResultCache.load_result or the load_result tool) that returns
\* fewer rows than the stored row_count reports truncated = true.
C13_FewerRowsIsTruncated ==
  (/\ loaded.via \in {"cache", "tool"}
   /\ loaded.out.kind = "data"
   /\ Len(loaded.out.data) < loaded.out.meta.total_rows)
    => loaded.out.meta.truncated

\* The rows of the data file of the loaded id, as they are stored.
StoredRows == files[Index[loaded.result_id].file_path].df.rows

\* C14: the load_result tool with limit L and offset O returns the stored rows
\* O .. min(O+L, row_count)-1 in stored order.
C14_LimitOffsetPages ==
  (/\ loaded.via = "tool"
   /\ loaded.out.kind = "data"
   /\ ~IsNone(loaded.limit))
    => loaded.out.data
         = SubSeq(StoredRows, loaded.offset + 1,
                  Min(loaded.offset + Val(loaded.limit), Len(StoredRows)))

\* C15: delete_result of an id that is in the index removes its data file and
\* its entry, from self.metadata and from the index file, and returns true;
\* delete_result of an absent id returns false and changes neither the index
\* nor any data file.
C15_DeleteRemovesOrRefuses ==
  [][/\ (Caller.pc = "idle" /\ th'["t1"].pc = "del_file")
          => th'["t1"].result_id \in DOMAIN Index
     /\ (Caller.pc = "del_dump" /\ th'["t1"].pc = "idle" /\ ~IsNone(metadata'["i1"]))
          => /\ th'["t1"].ret = Some("true")
             /\ Index[Caller.result_id].file_path \notin DOMAIN files'
             /\ Caller.result_id \notin DOMAIN Val(metadata'["i1"])
             /\ Caller.result_id \notin DOMAIN DiskEntries'
     /\ (Caller.pc = "idle" /\ th'["t1"].ret = Some("false") /\ th' # th)
          => /\ th'["t1"].result_id \notin DOMAIN Index
             /\ UNCHANGED <<files, index_file, metadata>>]_vars

\* A delete_result has returned true and nothing of the result is left.
C15_Witness ==
  /\ Caller.pc = "idle"
  /\ Caller.ret = Some("true")
  /\ ~IsNone(metadata["i1"])
  /\ Caller.result_id \notin DOMAIN Index
  /\ Caller.result_id \notin DOMAIN DiskEntries
  /\ FilesOf(files, Caller.result_id) = {}

\* A load was answered for an id whose index entry points at a file that is gone.
LoadOfMissingFile ==
  /\ loaded.via # "none"
  /\ loaded.result_id \in DOMAIN Index
  /\ Index[loaded.result_id].file_path \notin DOMAIN files

\* C16: a load of a result whose index entry exists and whose data file is
\* missing is answered, on each of the three paths, without an exception
\* reaching the caller.
C16_MissingFileIsNotFound ==
  LoadOfMissingFile => loaded.out.kind # "raised"

(***************************************************************************)
(* Claims about the session manager (SpecSession).                         *)
(***************************************************************************)
\* The id that the context supplies, None when there is none.
ContextId(context) ==
  IF ~IsNone(context) /\ Val(context).has_session_id THEN Val(context).session_id
  ELSE None

\* C17: get_or_create_session returns the explicit session_id when one is given,
\* otherwise the id supplied by the context when there is one, otherwise a
\* freshly generated id.
C17_ResolutionOrder ==
  resolved.outcome # "none"
    => /\ resolved.outcome = "returned"
       /\ IF StrTruthy(resolved.session_id) THEN resolved.id = resolved.session_id
          ELSE IF ~IsNone(ContextId(resolved.context))
          THEN resolved.id = ContextId(resolved.context)
          ELSE ~IsNone(resolved.id) /\ Val(resolved.id) \in GeneratedIds

\* A session saved a result, the process was started again, and the new
\* SessionManager has resolved the id of that session.
Reattached ==
  /\ ~IsNone(saved)
  /\ Val(saved).restarted
  /\ resolved.live
  /\ resolved.outcome = "returned"
  /\ resolved.id = Some(Val(saved).session_id)

SessionResolved ==
  /\ resolved'.live
  /\ resolved'.outcome = "returned"
  /\ resolved' # resolved \/ manager'.registry # manager.registry

\* C19: every call of get_or_create_session that returns, for a new session and
\* for a known one, has set the session's last_accessed to the time of the call,
\* and sessions.json holds the in-memory registry whenever no call is running.
C19_RegistryDurable ==
  [][/\ LoadRegistry' = manager'.registry
     /\ SessionResolved
          => manager'.registry[Val(resolved'.id)].last_accessed = now]_vars

\* A known session was resolved again at a later time and the file holds it.
C19_Witness ==
  /\ resolved.live
  /\ resolved.outcome = "returned"
  /\ manager.registry[Val(resolved.id)].created_at
       < manager.registry[Val(resolved.id)].last_accessed
  /\ registry_file = Some(manager.registry)

(***************************************************************************)
(* Claims about the paging loop: its bound, its order, its parameters.     *)
(***************************************************************************)

\* C22: a call of fetch_paginated or search_paginated sends at most max_pages
\* page requests when max_pages is an integer, and when max_pages is None it has
\* returned by the time it sent as many requests as the largest page count a
\* server names (MaxTotalPages), whatever currentPage and totalPages the
\* answers carry.
C22_BoundedByMaxPages ==
  (op \in {"fetch", "search"} /\ pc \in {"loop", "done"})
    => IF IsNone(max_pages)
       THEN NumGets >= MaxTotalPages => pc = "done"
       ELSE NumGets <= Val(max_pages)

\* The requests of a search after the submission.
PageRequests == {i \in 1..Len(reqs) : i > 1}

\* C26: a call of search_paginated sends exactly one POST, the first request;
\* every GET comes after it, only when the POST was answered without an error
\* by a result dict with a non-empty searchResultsDbId, and goes to
\* search/{service}/{handle}; a failed submission is followed by no GET.
C26_SubmitThenResults ==
  op = "search"
    => /\ Len(reqs) >= 1
       /\ reqs[1].method = "POST"
       /\ reqs[1].sent = 1
       /\ ~IsNone(search_response)
       /\ \A i \in PageRequests :
            LET x == Val(search_response)
            IN /\ reqs[i].method = "GET"
               /\ ~reqs[1].raised
               /\ x.status = "ok"
               /\ x.body.hasResult
               /\ x.body.result.kind = "dict"
               /\ ~IsNone(x.body.result.handle)
               /\ Val(x.body.result.handle) # <<>>
               /\ reqs[i].endpoint
                    = reqs[1].endpoint \o <<"/">> \o Val(x.body.result.handle)

\* A search whose handle was fetched in two page requests, and returned.
C26_Witness ==
  /\ op = "search" /\ pc = "done" /\ outcome = "returned"
  /\ NumGets = 2
  /\ Len(Val(ret).data) > MaxPageRows

\* C27: every GET of search_paginated carries the keys page and pageSize and no
\* other: no key of the submitted search parameters.
C27_OnlyPagingParams ==
  op = "search"
    => \A i \in PageRequests : DOMAIN reqs[i].params = {"page", "pageSize"}

\* A search submitted with a filter whose results took two page requests.
C27_Witness ==
  /\ op = "search" /\ pc = "done"
  /\ "f" \in DOMAIN reqs[1].params
  /\ NumGets = 2

\* A step of fetch_paginated in which a page request was answered (no transport
\* error, no exception) and brought no record.
EmptyPageStep ==
  /\ op = "fetch" /\ pc = "loop"
  /\ Len(reqs') = Len(reqs) + 1
  /\ ~reqs'[Len(reqs')].raised
  /\ outcome' # "raised"
  /\ all_data' = all_data

\* C28: the answer to a page request that has no 'result' or an empty page ends
\* the call: the records of the earlier pages are returned as they were
\* accumulated (none on page 0), and no request follows.
C28_EmptyPageStops ==
  [][/\ EmptyPageStep
         => /\ pc' = "done"
            /\ outcome' = "returned"
            /\ ~IsNone(ret')
            /\ Val(ret').data = all_data
            /\ Val(ret').meta.returnedCount = Len(all_data)
     /\ (op = "fetch" /\ pc = "done") => reqs' \in {reqs, <<>>}]_vars

\* Page 0 had records, page 1 was empty or had no 'result': page 0 is returned.
C28_Witness ==
  /\ op = "fetch" /\ pc = "done" /\ outcome = "returned"
  /\ NumGets = 2
  /\ ~reqs[2].raised
  /\ Len(Val(ret).data) = MaxPageRows
  /\ \A i \in 1..Len(Val(ret).data) : Val(ret).data[i].ident < 20

\* C29: the i-th request of fetch_paginated asks for page i-1, the records held
\* are those of the pages requested so far in the order of the pages, the next
\* request is sent only when the answer to the last one was processed (the page
\* counter has moved on), and the returned list is the accumulated one.
C29_PagesInOrder ==
  op = "fetch"
    => /\ \A i \in 1..Len(reqs) :
            reqs[i].method = "GET" /\ reqs[i].params["page"] = i - 1
       /\ Len(reqs) \in {page, page + 1}
       /\ pc = "loop" => Len(reqs) = page
       /\ \A i \in 1..Len(all_data) : all_data[i].ident < 10 * (Len(reqs) + 1)
       /\ \A i, j \in 1..Len(all_data) :
            i < j => all_data[i].ident < all_data[j].ident
       /\ (pc = "done" /\ outcome = "returned") => Val(ret).data = all_data

\* Two pages with records were fetched and returned.
C29_Witness ==
  /\ op = "fetch" /\ pc = "done" /\ outcome = "returned"
  /\ Len(reqs) = 2
  /\ \E i, j \in 1..Len(Val(ret).data) :
       Val(ret).data[i].ident < 20 /\ Val(ret).data[j].ident > 20

\* The query parameters the caller supplied: none for None and for {}.
Supplied == IF DictTruthy(given.params) THEN Val(given.params) ELSE EmptyDict

\* C30: the i-th page request of fetch_paginated and of _fetch_all_pages carries
\* every key the caller supplied with the caller's value, pageSize with the
\* pagesize argument, page with i-1, and nothing else.
C30_RequestsCarryCallerParams ==
  (given.called /\ op \in {"fetch", "legacy"})
    => \A i \in 1..Len(reqs) :
         /\ DOMAIN reqs[i].params = DOMAIN Supplied \cup {"page", "pageSize"}
         /\ \A k \in DOMAIN Supplied : reqs[i].params[k] = Supplied[k]
         /\ reqs[i].params["pageSize"] = pagesize
         /\ reqs[i].params["page"] = i - 1

\* A caller passed a filter and the call sent two page requests.
C30_Witness ==
  /\ given.called /\ op = "fetch"
  /\ "f" \in DOMAIN Supplied
  /\ Len(reqs) = 2

(***************************************************************************)
(* Claims about the limits and the summaries of the generic tools.         *)
(***************************************************************************)
ToolDone == tool.pc = "done" /\ tool.name \in {"brapi_get", "brapi_search"}

RemoteCallFailed == \E i \in 1..Len(reqs) : reqs[i].raised

\* C21: a brapi_get or brapi_search call one of whose remote calls failed (the
\* submission POST or a page GET) answers with an error, or with a result whose
\* summary says truncated; it never answers with a result_id, zero rows and
\* nothing else.
C21_RemoteFailureExplained ==
  (ToolDone /\ RemoteCallFailed)
    => \/ tool.answer.kind = "error"
       \/ tool.answer.kind = "result" /\ Summary.truncated

\* C23: a response with a result_id whose returned_count is below the total
\* count the server reported has truncated = true.
C23_FewerThanTotalIsTruncated ==
  (ToolDone /\ tool.answer.kind = "result"
     /\ Summary.returned_count < Summary.total_count)
    => Summary.truncated

\* The most rows a call with this max_results may hand out: min(max_results, 500),
\* and none for a negative max_results.
RowLimit ==
  IF Min(tool.max_results, 500) < 0 THEN 0 ELSE Min(tool.max_results, 500)

\* C24: for every max_results a call sends at most 6 page requests, and a
\* response with a result_id saves and reports at most min(max_results, 500)
\* rows (no row when that is negative).
C24_AtMostCappedRows ==
  /\ tool.name \in {"brapi_get", "brapi_search"} => NumGets <= 6
  /\ (ToolDone /\ tool.answer.kind = "result")
       => /\ Len(SavedRows) <= RowLimit
          /\ Summary.returned_count <= RowLimit

(***************************************************************************)
(* Claims about the capability builder.                                    *)
(***************************************************************************)
\* The paths the server reported that have a row in the table.
MatchedPaths ==
  {Val(builder.calls[i].service) :
     i \in {j \in 1..Len(builder.calls) :
              /\ ~IsNone(builder.calls[j].service)
              /\ Val(builder.calls[j].service) \in DOMAIN MetadataTable}}

\* The modules that hold an endpoint for the path.
ModulesOf(path) ==
  {m \in DOMAIN caps.modules : path \in DOMAIN caps.modules[m].endpoints}

\* C25: when from_server has returned, the flat endpoint map holds exactly the
\* reported paths that have a row in the table; each of them is in exactly one
\* module, the one named after the (lower-cased) category of its row, with the
\* same EndpointCapability as in the flat map; and the paths of the modules
\* together are the paths of the flat map.
C25_ExposesExactlyMatched ==
  builder.pc = "returned"
    => /\ DOMAIN caps.endpoints = MatchedPaths
       /\ \A path \in MatchedPaths :
            /\ ModulesOf(path) = {Lower(MetadataTable[path].category)}
            /\ \A m \in ModulesOf(path) :
                 /\ caps.modules[m].endpoints[path] = caps.endpoints[path]
                 /\ caps.endpoints[path].module = m
                 /\ caps.modules[m].name = m
            /\ caps.endpoints[path].path = path
       /\ UNION {DOMAIN caps.modules[m].endpoints : m \in DOMAIN caps.modules}
            = DOMAIN caps.endpoints

\* A server reported a path that is not in the table and two paths of one
\* category; the two are exposed in one module, the unknown one nowhere.
C25_Witness ==
  /\ builder.pc = "returned"
  /\ \E i \in 1..Len(builder.calls) : builder.calls[i].service = Some("unknown")
  /\ DOMAIN caps.endpoints = {"studies", "locations"}
  /\ DOMAIN caps.modules = {"core"}

(***************************************************************************)
(* Claims about the summary metadata and the caller's params.              *)
(***************************************************************************)

\* C32: in the summary of every fetch_paginated call that returns, pagesFetched
\* is the number of page requests the call sent and returnedCount is the length
\* of the returned list.
C32_SummaryCountsRequests ==
  (op = "fetch" /\ pc = "done" /\ outcome = "returned")
    => /\ Val(ret).meta.pagesFetched = Some(NumGets)
       /\ Val(ret).meta.returnedCount = Len(Val(ret).data)

\* C33: when fetch_paginated has ended, the params mapping of the caller holds
\* the keys and values the caller put there, and no page or pageSize.
C33_CallerParamsUntouched ==
  (given.called /\ op = "fetch" /\ pc = "done") => caller_params = given.params

\* C31: in the summary of a fetch_paginated call that returns, totalCount is the
\* totalCount the server sent with the last page that delivered records, and it
\* is returnedCount when no answer carried a totalCount.
C31_TotalCountFromLastPage ==
  (op = "fetch" /\ pc = "done" /\ outcome = "returned")
    => /\ (~IsNone(reported.last) /\ ~IsNone(Val(reported.last)))
            => Val(ret).meta.totalCount = Val(Val(reported.last))
       /\ ~reported.ever
            => Val(ret).meta.totalCount = Val(ret).meta.returnedCount

\* Two pages delivered records; the second came with a totalCount that is not
\* the number of records retrieved.
C31_Witness ==
  /\ op = "fetch" /\ pc = "done" /\ outcome = "returned"
  /\ NumGets = 2 /\ ~reqs[2].raised
  /\ reported.last = Some(Some(MaxTotalCount))
  /\ Len(Val(ret).data) > MaxTotalCount

\* No answer carried a totalCount and records were returned.
C31_FallbackReached ==
  /\ op = "fetch" /\ pc = "done" /\ outcome = "returned"
  /\ ~reported.ever /\ Len(Val(ret).data) > 0

(***************************************************************************)
(* Claims about the files of a cache directory and about what the tools    *)
(* leave in it.                                                            *)
(***************************************************************************)

\* The index entries on disk whose file is the path.
OwnersOf(path) == {id \in DOMAIN DiskEntries : DiskEntries[id].file_path = path}

\* C35: between save_result and delete_result calls, every data file of the
\* directory is the file of exactly one index entry, and no result_id has more
\* than one data file.
C35_FilesOwnedByIndex ==
  Quiescent
    => /\ \A path \in DOMAIN files : Cardinality(OwnersOf(path)) = 1
       /\ \A id \in ResultIds : Cardinality(FilesOf(files, id)) <= 1

\* C39: in every answer of the load_result tool that carries data, returned_rows
\* is the number of records in the data list and total_rows is the row count the
\* index holds for the result since it was saved.
C39_ReturnedRowsIsDataLength ==
  [][(loaded' # loaded /\ loaded'.via = "tool" /\ loaded'.out.kind = "data")
       => /\ loaded'.out.meta.returned_rows = Len(loaded'.out.data)
          /\ loaded'.result_id \in DOMAIN Index
          /\ loaded'.out.meta.total_rows = Index[loaded'.result_id].row_count]_vars

\* An answer of the load_result tool without offset: the counts agree there.
C39_WithoutOffset ==
  (loaded.via = "tool" /\ loaded.out.kind = "data" /\ loaded.offset = 0)
    => loaded.out.meta.returned_rows = Len(loaded.out.data)

\* Whatever the offset, total_rows is the row count of the stored result.
C39_TotalRowsStored ==
  [][(loaded' # loaded /\ loaded'.via = "tool" /\ loaded'.out.kind = "data")
       => /\ loaded'.result_id \in DOMAIN Index
          /\ loaded'.out.meta.total_rows = Index[loaded'.result_id].row_count]_vars

\* C34: when a brapi_get or brapi_search call one of whose remote requests failed
\* returns, every result the session's cache held before the call still has its
\* index entry and its data file with the same contents.
C34_FailedCallKeepsCache ==
  [][(tool.pc = "fetching" /\ tool'.pc = "done" /\ RemoteCallFailed)
       => \A id \in DOMAIN Val(metadata[SessionCache]) :
            LET entry == Val(metadata[SessionCache])[id]
            IN /\ id \in DOMAIN Val(metadata'[SessionCache])
               /\ Val(metadata'[SessionCache])[id] = entry
               /\ entry.file_path \in DOMAIN files
                    => /\ entry.file_path \in DOMAIN files'
                       /\ files'[entry.file_path].df = files[entry.file_path].df]_vars

\* The same for a call whose failed request was a page GET: the cache is untouched.
C34_FailedGetKeepsCache ==
  [][(tool.pc = "fetching" /\ tool'.pc = "done" /\ RemoteCallFailed
        /\ outcome = "raised")
       => UNCHANGED <<files, index_file, metadata>>]_vars

\* The result is stored for a registered session: the session is in
\* sessions.json, the result in the index file of its directory, its file there.
Stored(session_id, result_id) ==
  DownloadStatusFromRegistry(session_id, result_id) = "file"

\* C36: a GET on a download URL that was handed out returns the file whenever
\* the session is in the registry and the result is in the session's index with
\* its file present, also after a restart and with two instances in stdio mode.
C36_DownloadLinkResolves ==
  [][\A l \in links :
       (download' # download /\ download'.session_id = Some(l[1])
          /\ download'.result_id = Some(l[2]) /\ Stored(l[1], l[2]))
         => download'.status = "file"]_vars

\* The same in a process of HTTP mode that has not been started again since the
\* URL was handed out: there the download finds the session.
C36_SameInstanceResolves ==
  [][\A l \in links :
       (download' # download /\ download'.session_id = Some(l[1])
          /\ download'.result_id = Some(l[2]) /\ Stored(l[1], l[2])
          /\ IsNone(peer) /\ l[1] \in DOMAIN manager.caches)
         => download'.status = "file"]_vars

\* C37: with two SessionManager instances on the same directory, every session
\* either of them has created is in sessions.json.
C37_RegistryKeepsBothSessions ==
  \A id \in DOMAIN manager.registry
            \cup (IF IsNone(peer) THEN {} ELSE DOMAIN Val(peer).registry) :
    id \in DOMAIN LoadRegistry

\* With one SessionManager the file holds every session the manager knows.
C37_SingleManagerKeepsSessions ==
  IsNone(peer) => \A id \in DOMAIN manager.registry : id \in DOMAIN LoadRegistry

\* No call removes a session from the manager's registry or changes its
\* created_at or cache_dir.
C38_EntriesKept ==
  [][\A id \in DOMAIN manager.registry :
       /\ id \in DOMAIN manager'.registry
       /\ manager'.registry[id].created_at = manager.registry[id].created_at
       /\ manager'.registry[id].cache_dir = manager.registry[id].cache_dir]_vars

\* Every session with an in-memory cache instance is in the registry.
C38_CachesRegistered ==
  \A id \in DOMAIN manager.caches : id \in DOMAIN manager.registry

\* Distinct session ids have distinct cache directories.
C38_DistinctDirs ==
  \A a, b \in DOMAIN manager.registry :
    a # b => manager.registry[a].cache_dir # manager.registry[b].cache_dir

\* C38: over any sequence of SessionManager operations no session leaves the
\* registry, created_at and cache_dir of a session never change, distinct session
\* ids have distinct cache directories, and every session id with an in-memory
\* cache instance is in the registry.
C38_RegistryInvariants ==
  [][/\ \A id \in DOMAIN manager.registry :
          /\ id \in DOMAIN manager'.registry
          /\ manager'.registry[id].created_at = manager.registry[id].created_at
          /\ manager'.registry[id].cache_dir = manager.registry[id].cache_dir
     /\ \A a, b \in DOMAIN manager'.registry :
          a # b => manager'.registry[a].cache_dir # manager'.registry[b].cache_dir
     /\ \A id \in DOMAIN manager'.caches : id \in DOMAIN manager'.registry]_vars

====
